---------------------------- MODULE Spec2Model ----------------------------
(***************************************************************************)
(* A model of the LSM key-value engine of lsm-store: the write-ahead log   *)
(* writer and reader (wal/writer.go, wal/reader.go), the value encoder,    *)
(* the memtable, and the engine loop (db/db.go).                           *)
(*                                                                         *)
(* Bytes are naturals in 0..255 and byte strings are sequences of them.    *)
(* The sizes the program fixes at 4 KiB and 8 KiB (blockSize,              *)
(* memtableSizeLimit, memtableFlushThreshold) are scaled down so that      *)
(* every alignment of a record in a block, every rotation and every flush  *)
(* is reached by records of a few bytes; they are bounds of the model.     *)
(***************************************************************************)
EXTENDS Integers, Sequences, FiniteSets, TLC

VARIABLES
    \* ---- the WAL writer/reader pair on one log file (SpecWal)
    wphase,     \* "writing" | "failed" | "closed" | "reading" | "done"
    wfile,      \* the log file: [bytes, synced]
    wblock,     \* Writer.block.offset
    wlog,       \* the record() calls made, in order: [key, val, chunks, ok]
    wres,       \* what the last record()/Close() call did: [err, chunks, ops]
    wcut,       \* TRUE once the file lost bytes (a kill before Sync, a truncation)
    rd,         \* the Reader: [pos, blockNum, buf, len, offset]
    rout,       \* the records successive Next calls returned
    rerr,       \* the error of the last Next call ("nil" while none)
    \* ---- the engine on one data directory (Spec)
    proc,       \* "down" (no process) | "up" (Open returned a DB)
    queue,      \* DB.memtables.queue: memtables, oldest first
    mutable,    \* DB.memtables.mutable, as its index in queue (0: nil)
    sstables,   \* DB.sstables: file numbers, oldest first
    logs,       \* DB.logs: file numbers
    walw,       \* DB.wal: [fm (file number), offset (Writer.block.offset)]
    fileNum,    \* the provider's next file number
    disk,       \* the directory: file number -> [kind, bytes, synced, entries]
    hist,       \* per key, the last Set/Delete that returned nil
    lastCall,   \* the last engine call and what it returned
    nOps,       \* Set/Delete calls made
    nOpens,     \* Open calls made
    sinceOpen,  \* Set/Delete calls made since the last Open
    distinctSets, \* TRUE while every call was a Set of a key not set before
    faulted,    \* TRUE once an I/O error was injected into a call (SpecIO)
    \* ---- the library components, each on its own
    enc,        \* the value encoder: [step, op, payload, bytes, parsed] (SpecEnc)
    bw,         \* a blockWriter and what was added to it (SpecBlock)
    sst,        \* an SST file and a Reader.Get on it (SpecSst)
    bt,         \* a Btree and the map it stands for (SpecBtree)
    skl,        \* a SkipList and the map it stands for (SpecSkip)
    blk,        \* a block of restart keys and a search in it (SpecSearch)
    mt          \* a Memtable and the last call on it (SpecMem)

walVars == <<wphase, wfile, wblock, wlog, wres, wcut, rd, rout, rerr>>

dbVars == <<proc, queue, mutable, sstables, logs, walw, fileNum, disk,
            hist, lastCall, nOps, nOpens, sinceOpen, distinctSets, faulted>>

\* What the steps of one specification leave alone: the other variables.
restOfWal == <<dbVars, enc, bw, sst, bt, skl, blk, mt>>
restOfDb == <<walVars, enc, bw, sst, bt, skl, blk, mt>>
restOfEnc == <<walVars, dbVars, bw, sst, bt, skl, blk, mt>>
restOfBw == <<walVars, dbVars, enc, sst, bt, skl, blk, mt>>
restOfSst == <<walVars, dbVars, enc, bw, bt, skl, blk, mt>>
restOfBt == <<walVars, dbVars, enc, bw, sst, skl, blk, mt>>
restOfSkl == <<walVars, dbVars, enc, bw, sst, bt, blk, mt>>
restOfBlk == <<walVars, dbVars, enc, bw, sst, bt, skl, mt>>
restOfMt == <<walVars, dbVars, enc, bw, sst, bt, skl, blk>>

vars == <<walVars, dbVars, enc, bw, sst, bt, skl, blk, mt>>

-----------------------------------------------------------------------------
(* Bounds of the model. *)

\* wal/writer.go:19 has blockSize = 4 << 10; scaled down.
blockSize == 16
\* Records written to the log of SpecWal.
MaxRecords == 2
\* Length of the one key of SpecWal that is longer than a block.
LongKeyLen == 23
\* A key whose record leaves the block offset less than a chunk header short of
\* the block end, so that the next record() starts by sealing the block.
MidKeyLen == 7
\* The I/O calls of one record() call among which a failure is injected.
MaxFailAt == 4
\* db/db.go:86-87 have memtableSizeLimit = 4 << 10 and
\* memtableFlushThreshold = 8 << 10; scaled down.
memtableSizeLimit == 4
memtableFlushThreshold == 8
\* Set/Delete calls and Open calls of one run of Spec.
MaxOps == 4
MaxOpens == 2
MaxPayloadLen == 3
dataChunkSize == 2
MaxEntries == 5
maxBlockSize == 64
degree == 2
MaxBtKey == 9
MaxBtOps == 12
MaxRewritten == 1
MaxHeight == 3

(* Program constants. *)
headerSize == 3
chunkTypeFull == 1
chunkTypeFirst == 2
chunkTypeMiddle == 3
chunkTypeLast == 4
OpKindDelete == 0
OpKindSet == 1
MaxVarintLen64 == 10

-----------------------------------------------------------------------------
(* Byte-string helpers. *)

Min(a, b) == IF a < b THEN a ELSE b

\* s[from:to] of Go, on a sequence indexed from 1: elements from+1 .. to.
Slice(s, from, to) == SubSeq(s, from + 1, to)

Zeros(n) == [i \in 1..n |-> 0]

\* binary.PutUvarint: 7 bits per byte, least significant group first.
RECURSIVE PutUvarint(_)
PutUvarint(x) ==
    IF x < 128 THEN <<x>>
    ELSE <<128 + (x % 128)>> \o PutUvarint(x \div 128)

\* binary.Uvarint: [val, n]; n = 0 when buf ends inside the number, n < 0 on
\* a number longer than 64 bits.
RECURSIVE UvarintFrom(_, _, _, _)
UvarintFrom(buf, i, x, mul) ==
    IF i >= Len(buf) THEN [val |-> 0, n |-> 0]
    ELSE IF i = MaxVarintLen64 THEN [val |-> 0, n |-> -(i + 1)]
    ELSE LET b == buf[i + 1] IN
         IF b < 128
         THEN IF i = MaxVarintLen64 - 1 /\ b > 1
              THEN [val |-> 0, n |-> -(i + 1)]
              ELSE [val |-> x + b * mul, n |-> i + 1]
         ELSE UvarintFrom(buf, i + 1, x + (b % 128) * mul, mul * 128)

Uvarint(buf) == UvarintFrom(buf, 0, 0, 1)

\* binary.LittleEndian.PutUint16(buf, uint16(v)) and Uint16.
PutUint16(v) == <<(v % 65536) % 256, (v % 65536) \div 256>>
Uint16(b0, b1) == b0 + 256 * b1

-----------------------------------------------------------------------------
(* The value encoder. *)

\* Encode with the kind of the operation dropped.
EncodeAsSet(opKind, val) == <<OpKindSet>> \o val

\* Encoder.Encode: one byte of OpKind, then the payload.
Encode(opKind, val) == <<opKind>> \o val

\* Encoder.Parse; the caller guarantees Len(val) >= 1 (make([]byte, -1) panics).
Parse(val) == [opKind |-> val[1], val |-> Tail(val)]

IsTombstone(ev) == ev.opKind = OpKindDelete

-----------------------------------------------------------------------------
(* The file under the WAL writer: the bytes written and how many of them a *)
(* Sync has made durable.                                                  *)

NewFile == [bytes |-> <<>>, synced |-> 0]

FWrite(f, p) == [f EXCEPT !.bytes = @ \o p]
FSync(f) == [f EXCEPT !.synced = Len(f.bytes)]

\* Writer.writeAndSync. ops is the trace of I/O calls made so far in this
\* call of record()/Close(); the call number failAt fails (0: none does).
\* A failed call is traced as "W!" or "S!".
writeAndSyncNoSync(f, p, ops, failAt) ==
    IF Len(ops) + 1 = failAt
    THEN [f |-> f, ops |-> Append(ops, "W!"), err |-> "EIO"]
    ELSE [f |-> FWrite(f, p), ops |-> Append(ops, "W"), err |-> "nil"]

writeAndSync(f, p, ops, failAt) ==
    IF Len(ops) + 1 = failAt
    THEN [f |-> f, ops |-> Append(ops, "W!"), err |-> "EIO"]
    ELSE IF Len(ops) + 2 = failAt
    THEN [f |-> FWrite(f, p), ops |-> ops \o <<"W", "S!">>, err |-> "EIO"]
    ELSE [f |-> FSync(FWrite(f, p)), ops |-> ops \o <<"W", "S">>, err |-> "nil"]

-----------------------------------------------------------------------------
(* The WAL writer. *)

\* Writer.sealBlock returning to offset 0 without writing the padding.
sealBlockNoPad(offset, f, ops, failAt) ==
    [offset |-> 0, f |-> f, ops |-> ops, err |-> "nil"]

\* Writer.sealBlock: zero padding up to the end of the block, written and
\* synced; the offset returns to 0 only when that succeeded.
sealBlock(offset, f, ops, failAt) ==
    LET ws == writeAndSync(f, Zeros(blockSize - offset), ops, failAt)
    IN  [offset |-> IF ws.err = "nil" THEN 0 ELSE offset,
         f |-> ws.f, ops |-> ws.ops, err |-> ws.err]

\* The chunk type Writer.record gives a chunk that leaves the block at newOff.
chunkType(chunk, newOff, rest) ==
    IF newOff < blockSize
    THEN IF chunk = 0 THEN chunkTypeFull ELSE chunkTypeLast
    ELSE IF chunk = 0 THEN chunkTypeFirst ELSE chunkTypeMiddle

\* Writer.record's loop sealing one byte too late: offset + headerSize >
\* blockSize instead of >=.
RECURSIVE recordLoopSealLate(_, _)
recordLoopSealLate(st, failAt) ==
    IF Len(st.scratch) = 0 THEN st
    ELSE
    LET sealed == IF st.offset + headerSize > blockSize
                  THEN sealBlock(st.offset, st.f, st.ops, failAt)
                  ELSE [offset |-> st.offset, f |-> st.f, ops |-> st.ops,
                        err |-> "nil"]
    IN  IF sealed.err # "nil"
        THEN [st EXCEPT !.f = sealed.f, !.ops = sealed.ops, !.err = sealed.err]
        ELSE
        LET dataLen == Min(blockSize - sealed.offset - headerSize, Len(st.scratch))
            rest    == Slice(st.scratch, dataLen, Len(st.scratch))
            newOff  == sealed.offset + dataLen + headerSize
            typ     == chunkType(st.chunk, newOff, Len(rest))
            bytes   == PutUint16(dataLen) \o <<typ>> \o Slice(st.scratch, 0, dataLen)
            ws      == writeAndSync(sealed.f, bytes, sealed.ops, failAt)
            next    == [scratch |-> rest, chunk |-> st.chunk + 1, offset |-> newOff,
                        f |-> ws.f, ops |-> ws.ops,
                        chunks |-> IF Len(ws.f.bytes) > Len(sealed.f.bytes)
                                   THEN Append(st.chunks,
                                               [typ |-> typ,
                                                payload |-> Slice(st.scratch, 0, dataLen),
                                                at |-> sealed.offset])
                                   ELSE st.chunks,
                        err |-> ws.err]
        IN  IF ws.err # "nil" THEN next ELSE recordLoopSealLate(next, failAt)

\* The loop of Writer.record over the chunks of one payload.
\* st = [scratch, chunk, offset, f, ops, chunks, err]; chunks lists the
\* chunks whose Write succeeded: [typ, payload, at (block offset)].
RECURSIVE recordLoop(_, _)
recordLoop(st, failAt) ==
    IF Len(st.scratch) = 0 THEN st
    ELSE
    LET sealed == IF st.offset + headerSize >= blockSize
                  THEN sealBlock(st.offset, st.f, st.ops, failAt)
                  ELSE [offset |-> st.offset, f |-> st.f, ops |-> st.ops,
                        err |-> "nil"]
    IN  IF sealed.err # "nil"
        THEN [st EXCEPT !.f = sealed.f, !.ops = sealed.ops, !.err = sealed.err]
        ELSE
        LET dataLen == Min(blockSize - sealed.offset - headerSize, Len(st.scratch))
            rest    == Slice(st.scratch, dataLen, Len(st.scratch))
            newOff  == sealed.offset + dataLen + headerSize
            typ     == chunkType(st.chunk, newOff, Len(rest))
            bytes   == PutUint16(dataLen) \o <<typ>> \o Slice(st.scratch, 0, dataLen)
            ws      == writeAndSync(sealed.f, bytes, sealed.ops, failAt)
            next    == [scratch |-> rest, chunk |-> st.chunk + 1, offset |-> newOff,
                        f |-> ws.f, ops |-> ws.ops,
                        chunks |-> IF Len(ws.f.bytes) > Len(sealed.f.bytes)
                                   THEN Append(st.chunks,
                                               [typ |-> typ,
                                                payload |-> Slice(st.scratch, 0, dataLen),
                                                at |-> sealed.offset])
                                   ELSE st.chunks,
                        err |-> ws.err]
        IN  IF ws.err # "nil" THEN next ELSE recordLoop(next, failAt)

\* The payload of a record: uvarint keyLen, uvarint valLen, key, encoded value.
recordPayload(key, val) ==
    PutUvarint(Len(key)) \o PutUvarint(Len(val)) \o key \o val

\* Writer.record(key, val), val already encoded.
record(offset, f, key, val, failAt) ==
    recordLoop([scratch |-> recordPayload(key, val), chunk |-> 0,
                offset |-> offset, f |-> f, ops |-> <<>>, chunks |-> <<>>,
                err |-> "nil"], failAt)

RecordInsertion(offset, f, key, val, failAt) ==
    record(offset, f, key, Encode(OpKindSet, val), failAt)

RecordDeletion(offset, f, key, failAt) ==
    record(offset, f, key, Encode(OpKindDelete, <<>>), failAt)

\* Writer.Close: seal what is left of the block, then close the file.
WriterClose(offset, f, failAt) == sealBlock(offset, f, <<>>, failAt)

-----------------------------------------------------------------------------
(* The WAL reader. *)

NewReader == [pos |-> 0, blockNum |-> -1, buf |-> Zeros(blockSize),
              len |-> 0, offset |-> 0]

\* Reader.loadNextBlock over the file bytes fb: io.ReadFull into the block
\* buffer. A short read is accepted and leaves the rest of the buffer as it
\* was; no byte at all is io.EOF, with block.len already set to 0.
loadNextBlock(r, fb) ==
    LET n == Min(blockSize, Len(fb) - r.pos)
    IN  IF n = 0
        THEN [r |-> [r EXCEPT !.len = 0], err |-> "EOF"]
        ELSE [r |-> [pos |-> r.pos + n,
                     blockNum |-> r.blockNum + 1,
                     buf |-> [i \in 1..blockSize |->
                                 IF i <= n THEN fb[r.pos + i] ELSE r.buf[i]],
                     len |-> n,
                     offset |-> 0],
              err |-> "nil"]

\* The chunk loop of Reader.Next: header and payload are read from the block
\* buffer at block.offset, whatever block.len is. err = "panic" is a slice
\* outside the buffer.
RECURSIVE readChunks(_, _, _)
readChunks(r, fb, scratch) ==
    LET start == r.offset IN
    IF start + headerSize > blockSize
    THEN [r |-> r, scratch |-> scratch, err |-> "panic"]
    ELSE
    LET dataLen == Uint16(r.buf[start + 1], r.buf[start + 2])
        typ     == r.buf[start + 3]
    IN  IF start + headerSize + dataLen > blockSize
        THEN [r |-> r, scratch |-> scratch, err |-> "panic"]
        ELSE
        LET got == scratch \o Slice(r.buf, start + headerSize,
                                    start + headerSize + dataLen)
            r1  == [r EXCEPT !.offset = @ + headerSize + dataLen]
        IN  IF typ = chunkTypeFull \/ typ = chunkTypeLast
            THEN [r |-> r1, scratch |-> got, err |-> "nil"]
            ELSE LET ld == loadNextBlock(r1, fb) IN
                 IF ld.err # "nil"
                 THEN [r |-> ld.r, scratch |-> got, err |-> ld.err]
                 ELSE readChunks(ld.r, fb, got)

\* The end of Reader.Next: the payload is parsed into key and encoded value.
\* scratch[n+m+keyLen:] past the end of the scratch bytes panics, and so does
\* Parse of no byte (make([]byte, -1)).
parseRecord(scratch) ==
    LET u1 == Uvarint(scratch) IN
    IF u1.n < 0 THEN [err |-> "panic"]
    ELSE
    LET u2 == Uvarint(Slice(scratch, u1.n, Len(scratch))) IN
    IF u2.n < 0 \/ u1.n + u2.n + u1.val >= Len(scratch)
    THEN [err |-> "panic"]
    ELSE [err |-> "nil",
          key |-> Slice(scratch, u1.n + u2.n, u1.n + u2.n + u1.val),
          val |-> Parse(Slice(scratch, u1.n + u2.n + u1.val, Len(scratch)))]

\* Reader.Next: [r, err, key, val].
NoRecord(r, err) == [r |-> r, err |-> err, key |-> <<>>, val |-> <<>>]

ReaderNextLoaded(r, fb) ==
    IF r.offset >= r.len THEN NoRecord(r, "EOF")
    ELSE
    LET ld == IF r.len - r.offset <= headerSize
              THEN loadNextBlock(r, fb)
              ELSE [r |-> r, err |-> "nil"]
    IN  IF ld.err # "nil" THEN NoRecord(ld.r, ld.err)
        ELSE
        LET ch == readChunks(ld.r, fb, <<>>) IN
        IF ch.err # "nil" THEN NoRecord(ch.r, ch.err)
        ELSE LET p == parseRecord(ch.scratch) IN
             IF p.err # "nil" THEN NoRecord(ch.r, p.err)
             ELSE [r |-> ch.r, err |-> "nil", key |-> p.key, val |-> p.val]

ReaderNext(r, fb) ==
    IF r.blockNum = -1
    THEN LET ld == loadNextBlock(r, fb) IN
         IF ld.err # "nil" THEN NoRecord(ld.r, ld.err)
         ELSE ReaderNextLoaded(ld.r, fb)
    ELSE ReaderNextLoaded(r, fb)

-----------------------------------------------------------------------------
(* The memtable: the level-0 chain of its skip list as a sequence of       *)
(* [key, val] sorted by key, val being the encoded value.                  *)

\* bytes.Compare: -1, 0 or 1, lexicographic.
RECURSIVE BytesCompare(_, _)
BytesCompare(a, b) ==
    IF a = <<>> /\ b = <<>> THEN 0
    ELSE IF a = <<>> THEN -1
    ELSE IF b = <<>> THEN 1
    ELSE IF Head(a) < Head(b) THEN -1
    ELSE IF Head(a) > Head(b) THEN 1
    ELSE BytesCompare(Tail(a), Tail(b))

\* SkipList.Insert: the value of an existing key is replaced, a new key is
\* linked in before the first greater key.
RECURSIVE slInsert(_, _, _)
slInsert(sl, key, val) ==
    IF sl = <<>> THEN <<[key |-> key, val |-> val]>>
    ELSE LET c == BytesCompare(key, Head(sl).key) IN
         IF c = 0 THEN <<[key |-> key, val |-> val]>> \o Tail(sl)
         ELSE IF c < 0 THEN <<[key |-> key, val |-> val]>> \o sl
         ELSE <<Head(sl)>> \o slInsert(Tail(sl), key, val)

\* SkipList.Get: [found, val].
slGet(sl, key) ==
    IF \E i \in 1..Len(sl) : sl[i].key = key
    THEN [found |-> TRUE,
          val |-> sl[CHOOSE i \in 1..Len(sl) : sl[i].key = key].val]
    ELSE [found |-> FALSE, val |-> <<>>]

NewMemtable(logMeta) == [sl |-> <<>>, sizeUsed |-> 0, logMeta |-> logMeta]

HasRoomForWrite(m, key, val) ==
    Len(key) + Len(val) + 1 <= memtableSizeLimit - m.sizeUsed

\* Insert that counts the bytes of a key only the first time.
InsertCountedOnce(m, key, val) ==
    [m EXCEPT !.sl = slInsert(@, key, Encode(OpKindSet, val)),
              !.sizeUsed = IF slGet(m.sl, key).found THEN @
                           ELSE @ + Len(key) + Len(val) + 1]

Insert(m, key, val) ==
    [m EXCEPT !.sl = slInsert(@, key, Encode(OpKindSet, val)),
              !.sizeUsed = @ + Len(key) + Len(val) + 1]

InsertTombstone(m, key) ==
    [m EXCEPT !.sl = slInsert(@, key, Encode(OpKindDelete, <<>>)),
              !.sizeUsed = @ + 1]

\* Memtable.Get: [found, ev], ev the parsed value.
MemtableGet(m, key) ==
    LET g == slGet(m.sl, key) IN
    IF g.found THEN [found |-> TRUE, ev |-> Parse(g.val)]
    ELSE [found |-> FALSE, ev |-> [opKind |-> OpKindDelete, val |-> <<>>]]

-----------------------------------------------------------------------------
(* Error values. An error made by fmt.Errorf or errors.New is a fresh      *)
(* pointer: it is told apart from every other by the place that made it.   *)

NewError(msg, site) == [msg |-> msg, site |-> site]

\* the nil error
NilError == NewError("nil", "")

\* errors.Is(err, target) for errors that wrap nothing: the same pointer.
errorsIs(err, target) == err = target

-----------------------------------------------------------------------------
(* The directory and the file provider. A file is                          *)
(* [kind, bytes, synced, entries]: a log has bytes, an SST has entries.    *)

LogFile(f) == [kind |-> "log", bytes |-> f.bytes, synced |-> f.synced,
               entries |-> <<>>]
SstFile(entries) == [kind |-> "sst", bytes |-> <<>>, synced |-> 0,
                     entries |-> entries]

SetMax(S) == CHOOSE x \in S : \A y \in S : y <= x

\* storage.NewProvider: the next file number is max(existing) + 1, or 0.
ProviderNextNum(dk) == IF DOMAIN dk = {} THEN 0 ELSE SetMax(DOMAIN dk) + 1

\* The numbers in S in ascending order (the directory listing, by name).
RECURSIVE SortedNums(_)
SortedNums(S) ==
    IF S = {} THEN <<>>
    ELSE LET m == CHOOSE x \in S : \A y \in S : x <= y
         IN  <<m>> \o SortedNums(S \ {m})

\* Provider.ListFiles, split as DB.loadFiles splits it.
ListSSTables(dk) == SortedNums({n \in DOMAIN dk : dk[n].kind = "sst"})
ListLogs(dk) == SortedNums({n \in DOMAIN dk : dk[n].kind = "log"})

\* Provider.OpenFileForWriting of a new file: the file exists, empty.
CreateFile(dk, n, kind) ==
    (n :> [kind |-> kind, bytes |-> <<>>, synced |-> 0, entries |-> <<>>]) @@ dk

\* Provider.DeleteFile; deleting a file that is not there is no error.
DeleteFile(dk, n) == [x \in DOMAIN dk \ {n} |-> dk[x]]

-----------------------------------------------------------------------------
(* The SST writer and reader, at the level of the entries of the file.     *)

\* Writer.ConvertMemtableToSST: the memtable's entries in iterator order.
ConvertMemtableToSST(m) == SstFile(m.sl)

\* Reader.Get: the encoded value of the entry with the key, or the
\* "key not found" error made at the end of the search.
SstGet(file, key) ==
    IF \E i \in 1..Len(file.entries) : file.entries[i].key = key
    THEN [err |-> NilError,
          ev |-> Parse(file.entries[CHOOSE i \in 1..Len(file.entries) :
                                        file.entries[i].key = key].val)]
    ELSE [err |-> NewError("key not found", "sstable/reader.go:215"),
          ev |-> [opKind |-> OpKindDelete, val |-> <<>>]]

-----------------------------------------------------------------------------
(* The engine. d = [queue, mutable, sstables, logs, walw, fileNum, disk].  *)

NoWal == [fm |-> -1, offset |-> 0]

\* DB.rotateMemtables: a new mutable memtable bound to d.wal.fm.
rotateMemtables(d) ==
    [d EXCEPT !.queue = Append(@, NewMemtable(d.walw.fm)),
              !.mutable = Len(d.queue) + 1]

\* DB.createNewWAL: a new log file and a new writer on it.
createNewWAL(d) ==
    [d EXCEPT !.disk = CreateFile(@, d.fileNum, "log"),
              !.walw = [fm |-> d.fileNum, offset |-> 0],
              !.fileNum = @ + 1]

\* DB.rotateWAL: close the current writer (which seals its block), then a
\* new log.
rotateWAL(d) ==
    createNewWAL([d EXCEPT !.disk[d.walw.fm] =
                     LogFile(WriterClose(d.walw.offset, @, 0).f)])

\* DB.flushMemtables: every memtable but the last goes to an SST of its own,
\* oldest first, and its log file is deleted.
\* flushEach that puts the new SST at the head of the SST list.
RECURSIVE flushEachPrepend(_, _)
flushEachPrepend(d, flushable) ==
    IF flushable = <<>> THEN d
    ELSE flushEachPrepend(
             [d EXCEPT !.disk = DeleteFile(
                                    (d.fileNum :> ConvertMemtableToSST(
                                                      Head(flushable))) @@ @,
                                    Head(flushable).logMeta),
                       !.sstables = <<d.fileNum>> \o @,
                       !.fileNum = @ + 1],
             Tail(flushable))

\* flushEach that leaves the log file of a flushed memtable in place.
RECURSIVE flushEachKeepLog(_, _)
flushEachKeepLog(d, flushable) ==
    IF flushable = <<>> THEN d
    ELSE flushEachKeepLog(
             [d EXCEPT !.disk = (d.fileNum :> ConvertMemtableToSST(
                                                  Head(flushable))) @@ @,
                       !.sstables = Append(@, d.fileNum),
                       !.fileNum = @ + 1],
             Tail(flushable))

RECURSIVE flushEach(_, _)
flushEach(d, flushable) ==
    IF flushable = <<>> THEN d
    ELSE LET m == Head(flushable)
             d1 == [d EXCEPT !.disk = DeleteFile(
                                  (d.fileNum :> ConvertMemtableToSST(m)) @@ @,
                                  m.logMeta),
                             !.sstables = Append(@, d.fileNum),
                             !.fileNum = @ + 1]
         IN  flushEach(d1, Tail(flushable))

\* flushMemtables that empties the memtable it keeps.
flushMemtablesResetMutable(d) ==
    LET n == Len(d.queue) - 1
    IN  flushEach([d EXCEPT !.queue = <<NewMemtable(
                                           d.queue[Len(d.queue)].logMeta)>>,
                            !.mutable = @ - n],
                  SubSeq(d.queue, 1, n))

\* flushMemtables writing the newest memtable first.
RECURSIVE Reverse(_)
Reverse(q) == IF q = <<>> THEN <<>> ELSE Append(Reverse(Tail(q)), Head(q))

flushMemtablesNewestFirst(d) ==
    LET n == Len(d.queue) - 1
    IN  flushEach([d EXCEPT !.queue = SubSeq(d.queue, n + 1, Len(d.queue)),
                            !.mutable = @ - n],
                  Reverse(SubSeq(d.queue, 1, n)))

flushMemtables(d) ==
    LET n == Len(d.queue) - 1
    IN  flushEach([d EXCEPT !.queue = SubSeq(d.queue, n + 1, Len(d.queue)),
                            !.mutable = @ - n],
                  SubSeq(d.queue, 1, n))

RECURSIVE SumSizes(_)
SumSizes(q) == IF q = <<>> THEN 0 ELSE Head(q).sizeUsed + SumSizes(Tail(q))

\* maybeScheduleFlush with the comparison >= in place of >.
maybeScheduleFlushAtThreshold(d) ==
    IF SumSizes(d.queue) >= memtableFlushThreshold THEN flushMemtables(d) ELSE d

\* DB.maybeScheduleFlush
maybeScheduleFlush(d) ==
    IF SumSizes(d.queue) > memtableFlushThreshold THEN flushMemtables(d) ELSE d

\* prepMemtableForKV rotating on every call.
prepMemtableForKVAlways(d, key, val) == rotateMemtables(rotateWAL(d))

\* DB.prepMemtableForKV
prepMemtableForKV(d, key, val) ==
    IF ~HasRoomForWrite(d.queue[d.mutable], key, val)
    THEN rotateMemtables(rotateWAL(d))
    ELSE d

\* The record of Set/Delete goes to the current writer's file.
walRecorded(d, r) ==
    [d EXCEPT !.disk[d.walw.fm] = LogFile(r.f), !.walw.offset = r.offset]

walRecord(d, key, encoded) ==
    walRecorded(d, record(d.walw.offset, d.disk[d.walw.fm], key, encoded, 0))

\* m.Insert / m.InsertTombstone on the mutable memtable
mutableInsert(d, key, val) ==
    [d EXCEPT !.queue[d.mutable] = Insert(@, key, val)]

mutableInsertTombstone(d, key) ==
    [d EXCEPT !.queue[d.mutable] = InsertTombstone(@, key)]

\* DB.Set
Set(d, key, val) ==
    maybeScheduleFlush(
        mutableInsert(
            prepMemtableForKV(walRecord(d, key, Encode(OpKindSet, val)),
                              key, val),
            key, val))

\* DB.Delete
Delete(d, key) ==
    maybeScheduleFlush(
        mutableInsertTombstone(
            prepMemtableForKV(walRecord(d, key, Encode(OpKindDelete, <<>>)),
                              key, <<>>),
            key))

\* DB.Get: [val, err, fatal]. fatal is log.Fatal: the process exits.
GetValue(v) == [val |-> v, err |-> NilError, fatal |-> FALSE]
GetError(e) == [val |-> <<>>, err |-> e, fatal |-> FALSE]
GetFatal(e) == [val |-> <<>>, err |-> e, fatal |-> TRUE]

\* the scan of the sstables, newest (index j) to oldest
RECURSIVE getFromSSTables(_, _, _)
getFromSSTables(d, key, j) ==
    IF j < 1 THEN GetError(NewError("key not found", "db/db.go:277"))
    ELSE IF d.sstables[j] \notin DOMAIN d.disk
    THEN GetError(NewError("open", "db/db.go:251"))
    ELSE LET g == SstGet(d.disk[d.sstables[j]], key) IN
         IF g.err # NilError
         THEN IF errorsIs(g.err, NewError("key not found", "db/db.go:264"))
              THEN getFromSSTables(d, key, j - 1)
              ELSE GetFatal(g.err)
         ELSE IF IsTombstone(g.ev)
         THEN GetError(NewError("key not found", "db/db.go:271"))
         ELSE GetValue(g.ev.val)

\* the scan of the memtables, newest (index i) to oldest
RECURSIVE getFromQueue(_, _, _)
getFromQueue(d, key, i) ==
    IF i < 1 THEN getFromSSTables(d, key, Len(d.sstables))
    ELSE LET g == MemtableGet(d.queue[i], key) IN
         IF g.found
         THEN IF IsTombstone(g.ev)
              THEN GetError(NewError("key not found", "db/db.go:239"))
              ELSE GetValue(g.ev.val)
         ELSE getFromQueue(d, key, i - 1)

Get(d, key) == getFromQueue(d, key, Len(d.queue))

\* DB.replayWAL's handling of the error of Reader.Next: io.EOF ends the
\* replay without error, any other error is returned.
replayLoopErrStrict(err) == err
replayLoopErr(err) == IF err = "EOF" THEN "nil" ELSE err

\* One record of the log applied as DB.replayWAL applies it: the memtable
\* at index m of the queue takes it, whether or not a rotation came first.
replayApply(d, m, nx) ==
    [(IF ~HasRoomForWrite(d.queue[m], nx.key, nx.val.val)
      THEN rotateMemtables(d)
      ELSE d)
        EXCEPT !.queue[m] = IF IsTombstone(nx.val)
                            THEN InsertTombstone(@, nx.key)
                            ELSE Insert(@, nx.key, nx.val.val)]

\* The loop of DB.replayWAL over the records of one log; m is the index in
\* the queue of the memtable the records are applied to. [d, err]
RECURSIVE replayLoop(_, _, _, _)
RECURSIVE replayNext(_, _, _, _)
replayNext(d, m, fb, nx) ==
    IF nx.err # "nil" THEN [d |-> d, err |-> replayLoopErr(nx.err)]
    ELSE replayLoop(replayApply(d, m, nx), m, nx.r, fb)

replayLoop(d, m, r, fb) == replayNext(d, m, fb, ReaderNext(r, fb))

\* The end of DB.replayWAL: one more rotation, the flush of all memtables
\* but that last one, and the queue is dropped.
replayFlush(lp) ==
    IF lp.err # "nil" THEN lp
    ELSE [d |-> [flushMemtables(rotateMemtables(lp.d))
                    EXCEPT !.queue = <<>>, !.mutable = 0],
          err |-> "nil"]

replayFrom(d, fb) == replayFlush(replayLoop(d, d.mutable, NewReader, fb))

\* DB.replayWAL: [d, err]
replayWAL(d, fm) ==
    replayFrom(rotateMemtables([d EXCEPT !.walw.fm = fm]), d.disk[fm].bytes)

\* DB.replayWALs: [d, err]
RECURSIVE replayEach(_, _)
RECURSIVE replayRest(_, _)
replayRest(rp, ls) ==
    IF rp.err # "nil" THEN rp ELSE replayEach(rp.d, ls)

replayEach(d, ls) ==
    IF ls = <<>> THEN [d |-> [d EXCEPT !.logs = <<>>], err |-> "nil"]
    ELSE replayRest(replayWAL(d, Head(ls)), Tail(ls))

replayWALs(d) == replayEach(d, d.logs)

\* DB.loadFiles on a new DB over the directory dk
loadFiles(dk) ==
    [queue |-> <<>>, mutable |-> 0,
     sstables |-> ListSSTables(dk), logs |-> ListLogs(dk),
     walw |-> NoWal, fileNum |-> ProviderNextNum(dk), disk |-> dk]

\* Open after the replay: a new log, then the mutable memtable.
openReplayed(rp) ==
    IF rp.err # "nil" THEN rp
    ELSE [d |-> rotateMemtables(createNewWAL(rp.d)), err |-> "nil"]

\* Open on the directory dk: [d, err]
Open(dk) == openReplayed(replayWALs(loadFiles(dk)))

-----------------------------------------------------------------------------
(* SpecWal: one writer on an empty log file, then one reader over what the *)
(* file holds after the writer closed it, failed or was killed.            *)

\* Keys and values of Spec.
DbKeys == {<<97>>, <<98>>}
DbVals == {<<>>, <<120>>}

\* No I/O call of the handler fails.
NoFault == [kind |-> "none", at |-> 0]

NoOp == [op |-> "none", val |-> <<>>]
NoCallYet == [call |-> "none", key |-> <<>>, val |-> <<>>, err |-> NilError,
              fatal |-> FALSE, wal |-> FALSE, fault |-> NoFault]

\* The library components, not in use.
EncIdle == enc = "idle"
BwIdle == bw = "idle"
SstIdle == sst = "idle"
BtIdle == bt = "idle"
SklIdle == skl = "idle"
BlkIdle == blk = "idle"
MtIdle == mt = "idle"
LibIdle ==
    EncIdle /\ BwIdle /\ SstIdle /\ BtIdle /\ SklIdle /\ BlkIdle /\ MtIdle

DbIdle ==
    /\ proc = "idle"
    /\ queue = <<>>
    /\ mutable = 0
    /\ sstables = <<>>
    /\ logs = <<>>
    /\ walw = NoWal
    /\ fileNum = 0
    /\ disk = <<>>
    /\ hist = [k \in DbKeys |-> NoOp]
    /\ lastCall = NoCallYet
    /\ nOps = 0
    /\ nOpens = 0
    /\ sinceOpen = 0
    /\ distinctSets = TRUE
    /\ faulted = FALSE

\* Keys and payloads of SpecWal; LongKey needs more than one block.
LongKey == [i \in 1..LongKeyLen |-> 97]
MidKey == [i \in 1..MidKeyLen |-> 97]
WalKeys == {<<>>, <<97>>, MidKey, LongKey}
WalVals == {<<>>, <<120>>}
\* The encoded values RecordInsertion and RecordDeletion hand to record().
WalEncoded == {Encode(OpKindSet, v) : v \in WalVals} \cup {Encode(OpKindDelete, <<>>)}

NoCall == [err |-> "nil", chunks |-> <<>>, ops |-> <<>>, call |-> "none"]

InitWal ==
    /\ wphase = "writing"
    /\ wfile = NewFile
    /\ wblock = 0
    /\ wlog = <<>>
    /\ wres = NoCall
    /\ wcut = FALSE
    /\ rd = NewReader
    /\ rout = <<>>
    /\ rerr = "nil"
    /\ DbIdle
    /\ LibIdle

\* Writer.record(key, val) with the I/O call number failAt failing.
WalRecord(key, val, failAt) ==
    /\ wphase = "writing"
    /\ Len(wlog) < MaxRecords
    /\ LET res == record(wblock, wfile, key, val, failAt) IN
        /\ wfile' = res.f
        /\ wblock' = res.offset
        /\ wlog' = Append(wlog, [key |-> key, val |-> Parse(val),
                                 chunks |-> res.chunks, ok |-> res.err = "nil"])
        /\ wres' = [err |-> res.err, chunks |-> res.chunks, ops |-> res.ops,
                    call |-> "record"]
        /\ wphase' = IF res.err = "nil" THEN "writing" ELSE "failed"
    /\ UNCHANGED <<wcut, rd, rout, rerr>>
    /\ UNCHANGED restOfWal

\* Writer.Close.
WalClose(failAt) ==
    /\ wphase = "writing"
    /\ LET res == WriterClose(wblock, wfile, failAt) IN
        /\ wfile' = res.f
        /\ wblock' = res.offset
        /\ wres' = [err |-> res.err, chunks |-> <<>>, ops |-> res.ops,
                    call |-> "close"]
        /\ wphase' = IF res.err = "nil" THEN "closed" ELSE "failed"
    /\ UNCHANGED <<wlog, wcut, rd, rout, rerr>>
    /\ UNCHANGED restOfWal

\* The process is killed (or exits after a failed call) without Close: the
\* synced bytes stay, and any prefix of the bytes written after the last
\* Sync.
WalKill(keep) ==
    /\ wphase \in {"writing", "failed"}
    /\ wfile' = [bytes |-> Slice(wfile.bytes, 0, keep), synced |-> keep]
    /\ wcut' = (wcut \/ keep < Len(wfile.bytes))
    /\ wphase' = "closed"
    /\ UNCHANGED <<wblock, wlog, wres, rd, rout, rerr>>
    /\ UNCHANGED restOfWal

\* The first byte of the last block of a file of n bytes.
LastBlockStart(n) == IF n = 0 THEN 0 ELSE ((n - 1) \div blockSize) * blockSize

\* The tail of the last block is lost: the file is cut at byte position keep.
WalTruncate(keep) ==
    /\ wphase = "closed"
    /\ ~wcut
    /\ \A i \in 1..Len(wlog) : wlog[i].ok
    /\ wfile' = [bytes |-> Slice(wfile.bytes, 0, keep), synced |-> keep]
    /\ wcut' = TRUE
    /\ UNCHANGED <<wphase, wblock, wlog, wres, rd, rout, rerr>>
    /\ UNCHANGED restOfWal

\* NewReader over the file.
WalOpenReader ==
    /\ wphase = "closed"
    /\ wphase' = "reading"
    /\ rd' = NewReader
    /\ UNCHANGED <<wfile, wblock, wlog, wres, wcut, rout, rerr>>
    /\ UNCHANGED restOfWal

\* One call of Reader.Next.
WalNext ==
    /\ wphase = "reading"
    /\ LET res == ReaderNext(rd, wfile.bytes) IN
        /\ rd' = res.r
        /\ rerr' = res.err
        /\ rout' = IF res.err = "nil"
                   THEN Append(rout, [key |-> res.key, val |-> res.val])
                   ELSE rout
        /\ wphase' = IF res.err = "nil" THEN "reading" ELSE "done"
    /\ UNCHANGED <<wfile, wblock, wlog, wres, wcut>>
    /\ UNCHANGED restOfWal

NextWal ==
    \/ \E key \in WalKeys, val \in WalEncoded, failAt \in 0..MaxFailAt :
          WalRecord(key, val, failAt)
    \/ \E failAt \in 0..2 : WalClose(failAt)
    \/ \E keep \in wfile.synced .. Len(wfile.bytes) : WalKill(keep)
    \/ \E keep \in LastBlockStart(Len(wfile.bytes)) .. Len(wfile.bytes) - 1 :
          WalTruncate(keep)
    \/ WalOpenReader
    \/ WalNext

SpecWal == InitWal /\ [][NextWal]_vars

-----------------------------------------------------------------------------
(* The block writer (sstable, block-with-restart-points version). A byte   *)
(* slice handed to it is [isNil, b]: Go tells a nil []byte from an empty   *)
(* one, and blockWriter tests prefixKey against nil.                       *)

NilSlice == [isNil |-> TRUE, b |-> <<>>]
SliceOf(b) == [isNil |-> FALSE, b |-> b]

\* binary.LittleEndian.PutUint32(buf, uint32(v)) for 0 <= v < 2^31, which
\* every length and offset of a block within maxBlockSize is.
PutUint32(v) ==
    <<v % 256, (v \div 256) % 256, (v \div 65536) % 256,
      (v \div 16777216) % 256>>

\* binary.LittleEndian.Uint32(b[at:]). A value of 2^31 or more is read as
\* 2^31 - 1: it is only ever compared with sizes far below that.
Uint32(b, at) ==
    IF b[at + 4] >= 128 THEN 2147483647
    ELSE b[at + 1] + 256 * b[at + 2] + 65536 * b[at + 3]
            + 16777216 * b[at + 4]

newBlockWriter(chunkSize) ==
    [buf |-> <<>>, offsets |-> <<>>, currOffset |-> 0, nextOffset |-> 0,
     chunkSize |-> chunkSize, numEntries |-> 0, prefixKey |-> NilSlice]

\* blockWriter.trackOffset(n)
trackOffset(b, n) ==
    IF b.numEntries = b.chunkSize
    THEN [b EXCEPT !.nextOffset = @ + n,
                   !.offsets = Append(@, b.currOffset),
                   !.currOffset = b.nextOffset + n,
                   !.numEntries = 0,
                   !.prefixKey = NilSlice]
    ELSE [b EXCEPT !.nextOffset = @ + n]

\* The length of the common prefix of two byte strings.
RECURSIVE commonPrefixLen(_, _)
commonPrefixLen(a, c) ==
    IF a = <<>> \/ c = <<>> \/ Head(a) # Head(c) THEN 0
    ELSE 1 + commonPrefixLen(Tail(a), Tail(c))

\* blockWriter.calculateSharedLength(key): the shared length; the key becomes
\* the prefix key when there is none.
calculateSharedLength(b, key) ==
    IF b.prefixKey.isNil THEN 0 ELSE commonPrefixLen(key.b, b.prefixKey.b)

\* The bytes add() appends for one entry.
entryBytes(sharedLen, key, val) ==
    PutUvarint(sharedLen) \o PutUvarint(Len(key) - sharedLen)
        \o PutUvarint(Len(val)) \o Slice(key, sharedLen, Len(key)) \o val

\* blockWriter.add(key, val)
blockAdded(b, bytes) ==
    trackOffset([b EXCEPT !.buf = @ \o bytes, !.numEntries = @ + 1],
                Len(bytes))

blockAdd(b, key, val) ==
    blockAdded([b EXCEPT !.prefixKey = IF @.isNil THEN key ELSE @],
               entryBytes(calculateSharedLength(b, key), key.b, val))

\* The trailer finish() appends: the offsets, their number, the block length.
RECURSIVE offsetBytes(_)
offsetBytes(offsets) ==
    IF offsets = <<>> THEN <<>>
    ELSE PutUint32(Head(offsets)) \o offsetBytes(Tail(offsets))

trailerBytes(offsets, bufLen) ==
    offsetBytes(offsets) \o PutUint32(Len(offsets))
        \o PutUint32(bufLen + (Len(offsets) + 2) * 4)

\* blockWriter.finish(): the trailer is appended, then reset() clears
\* everything but the buffer.
blockFinished(b, offsets) ==
    [b EXCEPT !.buf = @ \o trailerBytes(offsets, Len(b.buf)),
              !.nextOffset = 0, !.currOffset = 0, !.offsets = <<>>,
              !.numEntries = 0, !.prefixKey = NilSlice]

finish(b) ==
    blockFinished(b, IF b.prefixKey.isNil THEN b.offsets
                     ELSE Append(b.offsets, b.currOffset))

-----------------------------------------------------------------------------
(* The SST reader. r.buf is one array of maxBlockSize bytes; the footer,   *)
(* the index block and the data block are slices of it, so mem below is    *)
(* that array and a slice is a range of it. Slicing past the capacity, or  *)
(* indexing past the length, panics.                                       *)

footerSizeInBytes == 8

Max(a, b) == IF a > b THEN a ELSE b

\* file.ReadAt(r.buf[:len], off): the bytes the file has from off, io.EOF
\* when they are fewer than len, an error on a negative offset.
ReadAt(mem, len, file, off) ==
    IF off < 0 THEN [mem |-> mem, err |-> "EINVAL"]
    ELSE IF len = 0 THEN [mem |-> mem, err |-> "nil"]
    ELSE [mem |-> Slice(file, off, Min(off + len, Len(file)))
                     \o Slice(mem, Max(0, Min(len, Len(file) - off)),
                              Len(mem)),
          err |-> IF Len(file) - off < len THEN "EOF" ELSE "nil"]

\* Reader.prepareBlockReader: buf[:indexLength] and the offsets slice
\* buf[indexLength-(numOffsets+2)*4:], which ends with the 8 footer bytes.
prepareBlockReader(mem, footer) ==
    LET numOffsets == Uint32(footer, 0)
        indexLength == Uint32(footer, 4)
    IN  [mem |-> mem, len |-> indexLength,
         offStart |-> indexLength - (numOffsets + 2) * 4,
         numOffsets |-> numOffsets,
         panic |-> \/ indexLength > maxBlockSize
                   \/ indexLength - (numOffsets + 2) * 4 < 0]

FetchPanic == [panic |-> TRUE, kvOffset |-> 0, key |-> <<>>, val |-> <<>>]

\* binary.Uvarint(b.buf[offset:])
uvarintAt(b, offset) ==
    IF offset < 0 \/ offset > b.len THEN [val |-> 0, n |-> 0, panic |-> TRUE]
    ELSE [val |-> Uvarint(Slice(b.mem, offset, b.len)).val,
          n |-> Uvarint(Slice(b.mem, offset, b.len)).n, panic |-> FALSE]

\* blockReader.fetchDataFor(pos), from the slices of key and value on.
fetchSlices(b, kvOffset, offset, keyLen, valLen) ==
    IF offset < 0 \/ offset + keyLen + valLen > maxBlockSize THEN FetchPanic
    ELSE [panic |-> FALSE, kvOffset |-> kvOffset,
          key |-> Slice(b.mem, offset, offset + keyLen),
          val |-> Slice(b.mem, offset + keyLen, offset + keyLen + valLen)]

fetchValLen(b, kvOffset, offset, keyLen, vl) ==
    IF vl.panic THEN FetchPanic
    ELSE fetchSlices(b, kvOffset, offset + vl.n, keyLen, vl.val)

fetchKeyLen(b, kvOffset, offset, kl) ==
    IF kl.panic THEN FetchPanic
    ELSE fetchValLen(b, kvOffset, offset + kl.n, kl.val,
                     uvarintAt(b, offset + kl.n))

fetchSharedLen(b, kvOffset, sh) ==
    IF sh.panic THEN FetchPanic
    ELSE fetchKeyLen(b, kvOffset, kvOffset + sh.n,
                     uvarintAt(b, kvOffset + sh.n))

\* blockReader.fetchDataFor(pos): the 4 bytes at offsets[pos*4:] are taken
\* as the offset of an entry, whatever pos is.
fetchDataFor(b, pos) ==
    IF b.offStart + pos * 4 + 4 > maxBlockSize THEN FetchPanic
    ELSE fetchSharedLen(b, Uint32(b.mem, b.offStart + pos * 4),
                        uvarintAt(b, Uint32(b.mem, b.offStart + pos * 4)))

moveUpWhenKeyGTE == 0
moveUpWhenKeyGT == 1

\* blockReader.search(searchKey, condition); -1 stands for a panic of
\* readKeyAt.
RECURSIVE searchLoop(_, _, _, _, _)
searchLoop(b, searchKey, condition, low, high) ==
    IF low >= high THEN low
    ELSE IF fetchDataFor(b, (low + high) \div 2).panic THEN -1
    ELSE IF BytesCompare(searchKey,
                         fetchDataFor(b, (low + high) \div 2).key)
               >= condition
    THEN searchLoop(b, searchKey, condition, (low + high) \div 2 + 1, high)
    ELSE searchLoop(b, searchKey, condition, low, (low + high) \div 2)

\* search that moves up on equal keys whatever the condition.
searchIgnoringCondition(b, searchKey, condition) ==
    searchLoop(b, searchKey, moveUpWhenKeyGTE, 0, b.numOffsets)

search(b, searchKey, condition) ==
    searchLoop(b, searchKey, condition, 0, b.numOffsets)

\* What Reader.Get comes to: out is "value", "notfound", "error" or "panic";
\* dataRead: ReadAt was called for a data block; outside: an index entry was
\* fetched at a position that is not below numOffsets.
GetResult(out, val, dataRead, outside) ==
    [out |-> out, val |-> val, dataRead |-> dataRead, outside |-> outside]

\* Reader.sequentialSearchBuf(buf, searchKey) with buf = r.buf[:length]; the
\* key of every entry is copied to the front of r.buf.
RECURSIVE sequentialSearchBuf(_, _, _, _, _)
sequentialSearchBuf(mem, length, offset, searchKey, outside) ==
    IF offset > length THEN GetResult("panic", <<>>, TRUE, outside)
    ELSE
    LET kl == Uvarint(Slice(mem, offset, length))
        vl == Uvarint(Slice(mem, offset + kl.n, length))
        ko == offset + kl.n + vl.n
        vo == ko + kl.val
        mem2 == Slice(mem, ko, vo) \o Slice(mem, kl.val, Len(mem))
    IN  IF kl.n <= 0 THEN GetResult("notfound", <<>>, TRUE, outside)
        ELSE IF ko < 0 \/ vo + vl.val > maxBlockSize
        THEN GetResult("panic", <<>>, TRUE, outside)
        ELSE IF BytesCompare(searchKey, Slice(mem2, 0, kl.val)) = 0
        THEN IF vl.val = 0 THEN GetResult("panic", <<>>, TRUE, outside)
             ELSE GetResult("value", Parse(Slice(mem2, vo, vo + vl.val)),
                            TRUE, outside)
        ELSE IF BytesCompare(searchKey, Slice(mem2, 0, kl.val)) < 0
        THEN GetResult("notfound", <<>>, TRUE, outside)
        ELSE sequentialSearchBuf(mem2, length, vo + vl.val, searchKey,
                                 outside)

\* Reader.readDataBlock(indexEntry) and the search of the block.
dataBlockRead(rd2, length, searchKey, outside) ==
    IF rd2.err # "nil" THEN GetResult("error", <<>>, TRUE, outside)
    ELSE sequentialSearchBuf(rd2.mem, length, 0, searchKey, outside)

readDataBlock(mem, file, indexEntry, searchKey, outside) ==
    IF Len(indexEntry) < 1 + 8
          \/ Uint32(Parse(indexEntry).val, 4) > maxBlockSize
    THEN GetResult("panic", <<>>, FALSE, outside)
    ELSE dataBlockRead(ReadAt(mem, Uint32(Parse(indexEntry).val, 4), file,
                              Uint32(Parse(indexEntry).val, 0)),
                       Uint32(Parse(indexEntry).val, 4), searchKey, outside)

\* Reader.binarySearch from the index search on: the entry at pos is fetched
\* with no test of pos against numOffsets.
indexEntryRead(b, file, e, searchKey, outside) ==
    IF e.panic THEN GetResult("panic", <<>>, FALSE, outside)
    ELSE readDataBlock(b.mem, file, e.val, searchKey, outside)

indexSearched(b, file, pos, searchKey) ==
    IF pos < 0 THEN GetResult("panic", <<>>, FALSE, FALSE)
    ELSE indexEntryRead(b, file, fetchDataFor(b, pos), searchKey,
                        pos >= b.numOffsets)

\* Reader.readIndexBlock(footer)
indexBlockRead(b, file, rd2, searchKey) ==
    IF rd2.err # "nil" THEN GetResult("error", <<>>, FALSE, FALSE)
    ELSE indexSearched([b EXCEPT !.mem = rd2.mem], file,
                       search([b EXCEPT !.mem = rd2.mem], searchKey,
                              moveUpWhenKeyGT),
                       searchKey)

readIndexBlock(b, file, searchKey) ==
    IF b.panic THEN GetResult("panic", <<>>, FALSE, FALSE)
    ELSE indexBlockRead(b, file,
                        ReadAt(b.mem, b.len, file, Len(file) - b.len),
                        searchKey)

\* Reader.readFooter and Reader.binarySearch
footerRead(file, rd2, searchKey) ==
    IF rd2.err # "nil" THEN GetResult("error", <<>>, FALSE, FALSE)
    ELSE readIndexBlock(prepareBlockReader(rd2.mem,
                                           Slice(rd2.mem, 0,
                                                 footerSizeInBytes)),
                        file, searchKey)

binarySearch(file, searchKey) ==
    footerRead(file,
               ReadAt(Zeros(maxBlockSize), footerSizeInBytes, file,
                      Len(file) - footerSizeInBytes),
               searchKey)

\* Reader.Get of a new Reader on the file.
ReaderGet(file, searchKey) == binarySearch(file, searchKey)

\* The SST file the reader is given. Every data block is the run of its
\* entries, each keyLen|valLen|key|value as sequentialSearchBuf reads them,
\* and gets an entry in the index block: its largest key and
\* encode(SET, offset || length). The index block, finished, ends the file.
RECURSIVE dataBlockBytes(_)
dataBlockBytes(entries) ==
    IF entries = <<>> THEN <<>>
    ELSE PutUvarint(Len(Head(entries).key))
            \o PutUvarint(Len(Head(entries).val))
            \o Head(entries).key \o Head(entries).val
            \o dataBlockBytes(Tail(entries))

RECURSIVE writeBlocks(_, _, _)
writeBlocks(blocks, data, index) ==
    IF blocks = <<>> THEN data \o finish(index).buf
    ELSE writeBlocks(Tail(blocks),
                     data \o dataBlockBytes(Head(blocks)),
                     blockAdd(index,
                              SliceOf(Head(blocks)[Len(Head(blocks))].key),
                              Encode(OpKindSet,
                                     PutUint32(Len(data))
                                        \o PutUint32(Len(dataBlockBytes(
                                                          Head(blocks)))))))

WriteSST(blocks) == writeBlocks(blocks, <<>>, newBlockWriter(1))

-----------------------------------------------------------------------------
(* The B-tree. A node is [items, children]: numItems and numChildren of    *)
(* the code are the lengths, positions of the code count from 0.           *)

maxChildren == 2 * degree
maxItems == maxChildren - 1
minItems == degree - 1

NewNode == [items |-> <<>>, children |-> <<>>]

isLeaf(n) == Len(n.children) = 0

\* node.search(key): the position of the key, or the position it would have.
RECURSIVE nodeSearchLoop(_, _, _, _)
nodeSearchLoop(items, key, low, high) ==
    IF low >= high THEN [pos |-> low, found |-> FALSE]
    ELSE IF BytesCompare(key, items[(low + high) \div 2 + 1].key) > 0
    THEN nodeSearchLoop(items, key, (low + high) \div 2 + 1, high)
    ELSE IF BytesCompare(key, items[(low + high) \div 2 + 1].key) < 0
    THEN nodeSearchLoop(items, key, low, (low + high) \div 2)
    ELSE [pos |-> (low + high) \div 2, found |-> TRUE]

nodeSearch(n, key) == nodeSearchLoop(n.items, key, 0, Len(n.items))

InsertAt(s, pos, x) == SubSeq(s, 1, pos) \o <<x>> \o SubSeq(s, pos + 1, Len(s))
RemoveAt(s, pos) == SubSeq(s, 1, pos) \o SubSeq(s, pos + 2, Len(s))

insertItemAt(n, pos, item) == [n EXCEPT !.items = InsertAt(@, pos, item)]
insertChildAt(n, pos, child) == [n EXCEPT !.children = InsertAt(@, pos, child)]
removeItemAt(n, pos) == [n EXCEPT !.items = RemoveAt(@, pos)]
removeChildAt(n, pos) == [n EXCEPT !.children = RemoveAt(@, pos)]

\* node.split(): the middle item, what stays in the node, and the new node.
split(n) ==
    [mid |-> n.items[minItems + 1],
     left |-> [items |-> SubSeq(n.items, 1, minItems),
               children |->
                   IF isLeaf(n) THEN <<>>
                   ELSE SubSeq(n.children, 1,
                               Len(n.children) - (Len(n.items) - minItems))],
     right |-> [items |-> SubSeq(n.items, minItems + 2, 2 * minItems + 1),
                children |->
                    IF isLeaf(n) THEN <<>>
                    ELSE SubSeq(n.children, minItems + 2, 2 * minItems + 2)]]

\* node.insert(item)
RECURSIVE nodeInsert(_, _)

insertBelow(n, pos, item) ==
    [n EXCEPT !.children[pos + 1] = nodeInsert(@, item)]

insertAfterSplit(n, pos, item, sp) ==
    IF BytesCompare(item.key, sp.mid.key) = 0
    THEN [items |-> InsertAt(n.items, pos, item),
          children |-> InsertAt([n.children EXCEPT ![pos + 1] = sp.left],
                                pos + 1, sp.right)]
    ELSE insertBelow(
             [items |-> InsertAt(n.items, pos, sp.mid),
              children |-> InsertAt([n.children EXCEPT ![pos + 1] = sp.left],
                                    pos + 1, sp.right)],
             IF BytesCompare(item.key, sp.mid.key) > 0 THEN pos + 1 ELSE pos,
             item)

nodeInsertAt(n, s, item) ==
    IF s.found THEN [n EXCEPT !.items[s.pos + 1] = item]
    ELSE IF isLeaf(n) THEN insertItemAt(n, s.pos, item)
    ELSE IF Len(n.children[s.pos + 1].items) >= maxItems
    THEN insertAfterSplit(n, s.pos, item, split(n.children[s.pos + 1]))
    ELSE insertBelow(n, s.pos, item)

nodeInsert(n, item) == nodeInsertAt(n, nodeSearch(n, item.key), item)

\* node.fillChildAt(pos): borrow the right-most item of the left sibling.
\* The child that goes with it is taken at left.numItems - 1.
borrowFromLeft(n, pos, left, right) ==
    [items |-> [n.items EXCEPT ![pos] = left.items[Len(left.items)]],
     children |->
        [n.children EXCEPT
            ![pos] = [items |-> RemoveAt(left.items, Len(left.items) - 1),
                      children |->
                          IF isLeaf(right) THEN left.children
                          ELSE RemoveAt(left.children, Len(left.items) - 1)],
            ![pos + 1] = [items |-> <<n.items[pos]>> \o right.items,
                          children |->
                              IF isLeaf(right) THEN right.children
                              ELSE <<left.children[Len(left.items)]>>
                                      \o right.children]]]

\* node.fillChildAt(pos): borrow the left-most item of the right sibling.
borrowFromRight(n, pos, left, right) ==
    [items |-> [n.items EXCEPT ![pos + 1] = right.items[1]],
     children |->
        [n.children EXCEPT
            ![pos + 1] = [items |-> Append(left.items, n.items[pos + 1]),
                          children |->
                              IF isLeaf(left) THEN left.children
                              ELSE Append(left.children, right.children[1])],
            ![pos + 2] = [items |-> Tail(right.items),
                          children |->
                              IF isLeaf(left) THEN right.children
                              ELSE Tail(right.children)]]]

\* node.fillChildAt(pos): merge the children at pos and pos + 1.
mergeChildren(n, pos, left, right) ==
    [items |-> RemoveAt(n.items, pos),
     children |->
        RemoveAt([n.children EXCEPT
                     ![pos + 1] =
                         [items |-> Append(left.items, n.items[pos + 1])
                                       \o right.items,
                          children |->
                              IF isLeaf(left) THEN left.children
                              ELSE left.children \o right.children]],
                 pos + 1)]

mergeAt(n, pos) == mergeChildren(n, pos, n.children[pos + 1], n.children[pos + 2])

\* An underflow left as it is.
fillChildAtSkipped(n, pos) == n

fillChildAt(n, pos) ==
    IF pos > 0 /\ Len(n.children[pos].items) > minItems
    THEN borrowFromLeft(n, pos, n.children[pos], n.children[pos + 1])
    ELSE IF pos < Len(n.children) - 1
               /\ Len(n.children[pos + 2].items) > minItems
    THEN borrowFromRight(n, pos, n.children[pos + 1], n.children[pos + 2])
    ELSE mergeAt(n, IF pos >= Len(n.children) - 1
                    THEN Len(n.children) - 2 ELSE pos)

\* node.delete(key, isSeekingSuccessor): [node, deleted], deleted the removed
\* item or none.
RECURSIVE nodeDelete(_, _, _)

\* Back from the child at childPos: the item found here is replaced by its
\* successor, an underflow of the child is repaired.
deleteReturned(n, s, childPos, r) ==
    [node |->
        IF Len(r.node.items) < minItems
        THEN fillChildAt(
                 [items |-> IF s.found
                            THEN [n.items EXCEPT ![s.pos + 1] = r.deleted[1]]
                            ELSE n.items,
                  children |-> [n.children EXCEPT ![childPos + 1] = r.node]],
                 childPos)
        ELSE [items |-> IF s.found
                        THEN [n.items EXCEPT ![s.pos + 1] = r.deleted[1]]
                        ELSE n.items,
              children |-> [n.children EXCEPT ![childPos + 1] = r.node]],
     deleted |-> r.deleted]

deleteBelow(n, key, s, childPos, isSeekingSuccessor) ==
    deleteReturned(n, s, childPos,
                   nodeDelete(n.children[childPos + 1], key,
                              isSeekingSuccessor))

nodeDeleteAt(n, key, s, isSeekingSuccessor) ==
    IF s.found /\ isLeaf(n)
    THEN [node |-> removeItemAt(n, s.pos), deleted |-> <<n.items[s.pos + 1]>>]
    ELSE IF isLeaf(n) /\ isSeekingSuccessor
    THEN [node |-> removeItemAt(n, 0), deleted |-> <<n.items[1]>>]
    ELSE IF isLeaf(n) THEN [node |-> n, deleted |-> <<>>]
    ELSE deleteBelow(n, key, s, IF s.found THEN s.pos + 1 ELSE s.pos,
                     s.found \/ isSeekingSuccessor)

nodeDelete(n, key, isSeekingSuccessor) ==
    nodeDeleteAt(n, key, nodeSearch(n, key), isSeekingSuccessor)

\* The tree: root is <<>> for nil, <<node>> otherwise.
NewBTree == <<>>

\* Btree.Find(key): <<val>>, or <<>> for the error.
RECURSIVE findFrom(_, _)
findFrom(n, key) ==
    IF nodeSearch(n, key).found
    THEN <<n.items[nodeSearch(n, key).pos + 1].val>>
    ELSE IF isLeaf(n) THEN <<>>
    ELSE findFrom(n.children[nodeSearch(n, key).pos + 1], key)

Find(root, key) == IF root = <<>> THEN <<>> ELSE findFrom(root[1], key)

\* Btree.splitRoot()
splitRoot(root) ==
    [items |-> <<split(root).mid>>,
     children |-> <<split(root).left, split(root).right>>]

\* Btree.Insert(key, val)
btreeInsertInto(root, item) ==
    IF Len(root.items) >= maxItems THEN nodeInsert(splitRoot(root), item)
    ELSE nodeInsert(root, item)

BtreeInsert(root, key, val) ==
    <<btreeInsertInto(IF root = <<>> THEN NewNode ELSE root[1],
                      [key |-> key, val |-> val])>>

\* Btree.Delete keeping a root that node.delete left without items.
btreeDeletedKeepRoot(r) == [root |-> <<r.node>>, ret |-> r.deleted # <<>>]

\* Btree.Delete(key): [root, ret]
btreeDeleted(r) ==
    [root |-> IF Len(r.node.items) = 0
              THEN IF isLeaf(r.node) THEN <<>> ELSE <<r.node.children[1]>>
              ELSE <<r.node>>,
     ret |-> r.deleted # <<>>]

BtreeDelete(root, key) ==
    IF root = <<>> THEN [root |-> root, ret |-> FALSE]
    ELSE btreeDeleted(nodeDelete(root[1], key, FALSE))

-----------------------------------------------------------------------------
(* The skip list with its towers. nodes is the heap: node 1 is the head, a *)
(* pointer is the number of a node and 0 is nil; level l of the code is    *)
(* tower[l + 1].                                                           *)

NoTower == [l \in 1..MaxHeight |-> 0]

FreeNode == [used |-> FALSE, key |-> <<>>, val |-> <<>>, tower |-> NoTower]

\* NewSkipList on a heap with room for n nodes besides the head.
NewSkipList(n) ==
    [nodes |-> [i \in 1..(n + 1) |->
                   IF i = 1 THEN [FreeNode EXCEPT !.used = TRUE] ELSE FreeNode],
     height |-> 1]

\* SkipList.search: along one level, to the last node whose key is below key.
RECURSIVE slScan(_, _, _, _)
slScan(nodes, key, prev, level) ==
    IF nodes[prev].tower[level + 1] # 0
          /\ BytesCompare(key, nodes[nodes[prev].tower[level + 1]].key) > 0
    THEN slScan(nodes, key, nodes[prev].tower[level + 1], level)
    ELSE prev

\* SkipList.search: the levels from the top down; journey[level] is where
\* each level was left.
RECURSIVE slDescend(_, _, _, _, _)
slDescend(nodes, key, prev, level, journey) ==
    IF level < 0 THEN [prev |-> prev, journey |-> journey]
    ELSE slDescend(nodes, key, slScan(nodes, key, prev, level), level - 1,
                   [journey EXCEPT ![level + 1] =
                       slScan(nodes, key, prev, level)])

\* SkipList.search(key): [n, journey], n the node of the key or nil.
slFound(sl, key, d) ==
    [n |-> IF sl.height >= 1
              /\ sl.nodes[d.prev].tower[1] # 0
              /\ sl.nodes[sl.nodes[d.prev].tower[1]].key = key
           THEN sl.nodes[d.prev].tower[1] ELSE 0,
     journey |-> d.journey]

slSearch(sl, key) ==
    slFound(sl, key, slDescend(sl.nodes, key, 1, sl.height - 1, NoTower))

\* SkipList.Get(key): <<val>>, or <<>> when the key is not there.
slGot(sl, n) == IF n # 0 THEN <<sl.nodes[n].val>> ELSE <<>>

SkipListGet(sl, key) == slGot(sl, slSearch(sl, key).n)

\* SkipList.Insert: the new node is linked in, level by level from the
\* bottom, after journey[level] or after the head above the old height.
RECURSIVE slLink(_, _, _, _, _)
slLink(nodes, new, journey, level, height) ==
    IF level >= height THEN nodes
    ELSE slLink([nodes EXCEPT
                    ![new].tower[level + 1] =
                        nodes[IF journey[level + 1] = 0 THEN 1
                              ELSE journey[level + 1]].tower[level + 1],
                    ![IF journey[level + 1] = 0 THEN 1
                      ELSE journey[level + 1]].tower[level + 1] = new],
                new, journey, level + 1, height)

slInsertNew(sl, key, val, height, journey, new) ==
    [nodes |-> slLink([sl.nodes EXCEPT
                          ![new] = [used |-> TRUE, key |-> key, val |-> val,
                                    tower |-> NoTower]],
                      new, journey, 0, height),
     height |-> IF height > sl.height THEN height ELSE sl.height]

\* SkipList.Insert(key, val) with height what randomHeight() returns; the
\* new node is the free node of the least number.
slInsertAt(sl, key, val, height, s) ==
    IF s.n # 0 THEN [sl EXCEPT !.nodes[s.n].val = val]
    ELSE slInsertNew(sl, key, val, height, s.journey,
                     CHOOSE i \in DOMAIN sl.nodes :
                        /\ ~sl.nodes[i].used
                        /\ \A j \in DOMAIN sl.nodes :
                              ~sl.nodes[j].used => i <= j)

SkipListInsert(sl, key, val, height) ==
    slInsertAt(sl, key, val, height, slSearch(sl, key))

\* SkipList.shrink()
RECURSIVE shrinkFrom(_, _)
shrinkFrom(sl, level) ==
    IF level >= 0 /\ sl.nodes[1].tower[level + 1] = 0
    THEN shrinkFrom([sl EXCEPT !.height = @ - 1], level - 1)
    ELSE sl

shrink(sl) == shrinkFrom(sl, sl.height - 1)

\* SkipList.Delete: the node is unlinked only at the bottom level.
RECURSIVE slUnlinkBottomOnly(_, _, _, _, _)
slUnlinkBottomOnly(nodes, n, journey, level, height) ==
    IF level >= Min(height, 1) \/ nodes[journey[level + 1]].tower[level + 1] # n
    THEN nodes
    ELSE slUnlinkBottomOnly(
             [nodes EXCEPT
                 ![journey[level + 1]].tower[level + 1] =
                     nodes[n].tower[level + 1],
                 ![n].tower[level + 1] = 0],
             n, journey, level + 1, height)

\* SkipList.Delete: the node is unlinked level by level from the bottom, up
\* to the level where journey[level] does not point to it.
RECURSIVE slUnlink(_, _, _, _, _)
slUnlink(nodes, n, journey, level, height) ==
    IF level >= height \/ nodes[journey[level + 1]].tower[level + 1] # n
    THEN nodes
    ELSE slUnlink([nodes EXCEPT
                      ![journey[level + 1]].tower[level + 1] =
                          nodes[n].tower[level + 1],
                      ![n].tower[level + 1] = 0],
                  n, journey, level + 1, height)

\* A node that no tower points to any more is garbage.
slCollect(nodes, n) ==
    IF \E i \in DOMAIN nodes, l \in 1..MaxHeight : nodes[i].tower[l] = n
    THEN nodes
    ELSE [nodes EXCEPT ![n] = FreeNode]

\* SkipList.Delete(key): [sl, ret]
slDeleteAt(sl, s) ==
    IF s.n = 0 THEN [sl |-> sl, ret |-> FALSE]
    ELSE [sl |-> shrink([sl EXCEPT !.nodes =
                            slCollect(slUnlink(sl.nodes, s.n, s.journey, 0,
                                               sl.height),
                                      s.n)]),
          ret |-> TRUE]

SkipListDelete(sl, key) == slDeleteAt(sl, slSearch(sl, key))

-----------------------------------------------------------------------------
(* The engine's Set and Delete with their error paths. fault names the one *)
(* I/O call of the handler that fails, if the handler gets to it:          *)
(*   "wal"         the at-th Write/Sync of Writer.record                   *)
(*   "close"       the at-th Write/Sync of Writer.Close (rotateWAL)        *)
(*   "closeFile"   file.Close in Writer.Close                              *)
(*   "create"      OpenFileForWriting in createNewWAL                      *)
(*   "flushOpen", "flushWrite", "flushClose", "flushDelete"                *)
(*                 the steps of flushMemtables on its at-th memtable       *)
(* Results are [d, err] and, for Set/Delete, [d, err, fatal, wal]: fatal   *)
(* is log.Fatalf, wal says that record() returned nil with the whole       *)
(* payload written and every written byte synced.                          *)

FlushFaults == {"flushOpen", "flushWrite", "flushClose", "flushDelete"}

IoFaults ==
    {[kind |-> "wal", at |-> n] : n \in 1..MaxFailAt}
        \cup {[kind |-> "close", at |-> n] : n \in 1..2}
        \cup {[kind |-> k, at |-> 0] : k \in {"closeFile", "create"}}
        \cup {[kind |-> k, at |-> n] : k \in FlushFaults, n \in 1..2}

failAtOf(fault, kind) == IF fault.kind = kind THEN fault.at ELSE 0

\* d.wal.w.RecordInsertion / RecordDeletion: [d, err, wal]
walRecordedIo(d, r) ==
    [d |-> walRecorded(d, r), err |-> r.err,
     wal |-> r.err = "nil" /\ Len(r.scratch) = 0
                 /\ r.f.synced = Len(r.f.bytes)]

walRecordIo(d, key, encoded, fault) ==
    walRecordedIo(d, record(d.walw.offset, d.disk[d.walw.fm], key, encoded,
                            failAtOf(fault, "wal")))

\* DB.rotateWAL: [d, err]. c is what Writer.sealBlock did in Close.
walClosed(d, c) ==
    [d EXCEPT !.disk[d.walw.fm] = LogFile(c.f), !.walw.offset = c.offset]

rotateWALClosed(d, c, fault) ==
    IF c.err # "nil" THEN [d |-> walClosed(d, c), err |-> c.err]
    ELSE IF fault.kind = "closeFile"
    THEN [d |-> walClosed(d, c), err |-> "EIO"]
    ELSE IF fault.kind = "create"
    THEN [d |-> [walClosed(d, c) EXCEPT !.fileNum = @ + 1], err |-> "EIO"]
    ELSE [d |-> createNewWAL(walClosed(d, c)), err |-> "nil"]

rotateWALIo(d, fault) ==
    rotateWALClosed(d, WriterClose(d.walw.offset, d.disk[d.walw.fm],
                                   failAtOf(fault, "close")), fault)

\* DB.prepMemtableForKV: [d, err]
prepRotated(rw) ==
    IF rw.err # "nil" THEN rw
    ELSE [d |-> rotateMemtables(rw.d), err |-> "nil"]

prepMemtableForKVIo(d, key, val, fault) ==
    IF ~HasRoomForWrite(d.queue[d.mutable], key, val)
    THEN prepRotated(rotateWALIo(d, fault))
    ELSE [d |-> d, err |-> "nil"]

\* DB.flushMemtables: [d, err]. The queue is cut before the loop; the
\* memtables before the at-th are flushed, the failed step on the at-th
\* returns at once: the SST file is there once it was opened, it is in
\* d.sstables once it was closed.
flushStepFailed(d, m, fault) ==
    IF fault.kind = "flushOpen" THEN [d EXCEPT !.fileNum = @ + 1]
    ELSE IF fault.kind = "flushWrite"
    THEN [d EXCEPT !.disk = (d.fileNum :> SstFile(<<>>)) @@ @,
                   !.fileNum = @ + 1]
    ELSE IF fault.kind = "flushClose"
    THEN [d EXCEPT !.disk = (d.fileNum :> ConvertMemtableToSST(m)) @@ @,
                   !.fileNum = @ + 1]
    ELSE [d EXCEPT !.disk = (d.fileNum :> ConvertMemtableToSST(m)) @@ @,
                   !.sstables = Append(@, d.fileNum),
                   !.fileNum = @ + 1]

flushCut(d, flushable, fault) ==
    IF fault.kind \in FlushFaults /\ fault.at \in 1..Len(flushable)
    THEN [d |-> flushStepFailed(flushEach(d, SubSeq(flushable, 1,
                                                    fault.at - 1)),
                                flushable[fault.at], fault),
          err |-> "EIO"]
    ELSE [d |-> flushEach(d, flushable), err |-> "nil"]

flushMemtablesIo(d, fault) ==
    flushCut([d EXCEPT !.queue = SubSeq(d.queue, Len(d.queue), Len(d.queue)),
                       !.mutable = 1],
             SubSeq(d.queue, 1, Len(d.queue) - 1), fault)

\* DB.maybeScheduleFlush: [d, err, fatal]; an error of the flush is
\* log.Fatalf, nothing is returned.
flushFatal(fl) == [d |-> fl.d, err |-> fl.err, fatal |-> fl.err # "nil"]

maybeScheduleFlushIo(d, fault) ==
    IF SumSizes(d.queue) > memtableFlushThreshold
    THEN flushFatal(flushMemtablesIo(d, fault))
    ELSE [d |-> d, err |-> "nil", fatal |-> FALSE]

\* DB.Set: [d, err, fatal, wal]
callFlushed(mf) ==
    [d |-> mf.d, err |-> mf.err, fatal |-> mf.fatal, wal |-> TRUE]

callFailed(r, wal) ==
    [d |-> r.d, err |-> r.err, fatal |-> FALSE, wal |-> wal]

setPrepared(pr, key, val, fault) ==
    IF pr.err # "nil" THEN callFailed(pr, TRUE)
    ELSE callFlushed(maybeScheduleFlushIo(mutableInsert(pr.d, key, val), fault))

\* Set with the memtable written whether or not the log took the record.
setRecordedInsertFirst(wr, key, val, fault) ==
    IF wr.err # "nil"
    THEN callFailed([wr EXCEPT !.d = mutableInsert(wr.d, key, val)], wr.wal)
    ELSE setPrepared(prepMemtableForKVIo(wr.d, key, val, fault),
                     key, val, fault)

setRecorded(wr, key, val, fault) ==
    IF wr.err # "nil" THEN callFailed(wr, wr.wal)
    ELSE setPrepared(prepMemtableForKVIo(wr.d, key, val, fault),
                     key, val, fault)

SetIo(d, key, val, fault) ==
    setRecorded(walRecordIo(d, key, Encode(OpKindSet, val), fault),
                key, val, fault)

\* DB.Delete: [d, err, fatal, wal]
deletePrepared(pr, key, fault) ==
    IF pr.err # "nil" THEN callFailed(pr, TRUE)
    ELSE callFlushed(maybeScheduleFlushIo(mutableInsertTombstone(pr.d, key),
                                          fault))

deleteRecorded(wr, key, fault) ==
    IF wr.err # "nil" THEN callFailed(wr, wr.wal)
    ELSE deletePrepared(prepMemtableForKVIo(wr.d, key, <<>>, fault), key, fault)

DeleteIo(d, key, fault) ==
    deleteRecorded(walRecordIo(d, key, Encode(OpKindDelete, <<>>), fault),
                   key, fault)

-----------------------------------------------------------------------------
(* Spec: one data directory, and at most one engine process on it at a     *)
(* time. The process is opened, takes Set/Delete/Get calls, and is killed  *)
(* (it has no Close) or exits in log.Fatal.                                *)

\* The engine's state as one record, and back.
DbState == [queue |-> queue, mutable |-> mutable, sstables |-> sstables,
            logs |-> logs, walw |-> walw, fileNum |-> fileNum, disk |-> disk]

DbBecomes(d) ==
    /\ queue' = d.queue
    /\ mutable' = d.mutable
    /\ sstables' = d.sstables
    /\ logs' = d.logs
    /\ walw' = d.walw
    /\ fileNum' = d.fileNum
    /\ disk' = d.disk

\* The process is gone: what it held in memory is gone, the directory stays.
ProcessGone(dk) ==
    /\ proc' = "down"
    /\ queue' = <<>>
    /\ mutable' = 0
    /\ sstables' = <<>>
    /\ logs' = <<>>
    /\ walw' = NoWal
    /\ fileNum' = 0
    /\ disk' = dk

WalIdle ==
    /\ wphase = "idle"
    /\ wfile = NewFile
    /\ wblock = 0
    /\ wlog = <<>>
    /\ wres = NoCall
    /\ wcut = FALSE
    /\ rd = NewReader
    /\ rout = <<>>
    /\ rerr = "nil"

Init ==
    /\ proc = "down"
    /\ queue = <<>>
    /\ mutable = 0
    /\ sstables = <<>>
    /\ logs = <<>>
    /\ walw = NoWal
    /\ fileNum = 0
    /\ disk = <<>>
    /\ hist = [k \in DbKeys |-> NoOp]
    /\ lastCall = NoCallYet
    /\ nOps = 0
    /\ nOpens = 0
    /\ sinceOpen = 0
    /\ distinctSets = TRUE
    /\ faulted = FALSE
    /\ WalIdle
    /\ LibIdle

\* db.Open(dirname)
DbOpen ==
    /\ proc = "down"
    /\ nOpens < MaxOpens
    /\ \E o \in {Open(disk)} :
        /\ IF o.err = "nil"
           THEN proc' = "up" /\ DbBecomes(o.d)
           ELSE ProcessGone(o.d.disk)
        /\ lastCall' = [NoCallYet EXCEPT !.call = "open",
                                         !.err = NewError(o.err, "")]
    /\ nOpens' = nOpens + 1
    /\ sinceOpen' = 0
    /\ UNCHANGED <<hist, nOps, distinctSets>>
    /\ UNCHANGED <<faulted, restOfDb>>

\* DB.Set(key, val)
DbSet(key, val) ==
    /\ proc = "up"
    /\ nOps < MaxOps
    /\ \E d \in {Set(DbState, key, val)} : DbBecomes(d)
    /\ hist' = [hist EXCEPT ![key] = [op |-> "set", val |-> val]]
    /\ lastCall' = [NoCallYet EXCEPT !.call = "set", !.key = key, !.val = val]
    /\ nOps' = nOps + 1
    /\ sinceOpen' = sinceOpen + 1
    /\ distinctSets' = (distinctSets /\ hist[key].op = "none")
    /\ UNCHANGED <<proc, nOpens>>
    /\ UNCHANGED <<faulted, restOfDb>>

\* DB.Delete(key)
DbDelete(key) ==
    /\ proc = "up"
    /\ nOps < MaxOps
    /\ \E d \in {Delete(DbState, key)} : DbBecomes(d)
    /\ hist' = [hist EXCEPT ![key] = [op |-> "del", val |-> <<>>]]
    /\ lastCall' = [NoCallYet EXCEPT !.call = "delete", !.key = key]
    /\ nOps' = nOps + 1
    /\ sinceOpen' = sinceOpen + 1
    /\ distinctSets' = FALSE
    /\ UNCHANGED <<proc, nOpens>>
    /\ UNCHANGED <<faulted, restOfDb>>

\* DB.Get(key): the process exits when Get ends in log.Fatal.
DbGet(key) ==
    /\ proc = "up"
    /\ \E g \in {Get(DbState, key)} :
        /\ lastCall' = [NoCallYet EXCEPT !.call = "get", !.key = key,
                                         !.val = g.val, !.err = g.err,
                                         !.fatal = g.fatal]
        /\ IF g.fatal
           THEN ProcessGone(disk)
           ELSE UNCHANGED <<proc, queue, mutable, sstables, logs, walw,
                            fileNum, disk>>
    /\ UNCHANGED <<hist, nOps, nOpens, sinceOpen, distinctSets>>
    /\ UNCHANGED <<faulted, restOfDb>>

\* The process is killed between two calls.
DbKill ==
    /\ proc = "up"
    /\ ProcessGone(disk)
    /\ lastCall' = [NoCallYet EXCEPT !.call = "kill"]
    /\ UNCHANGED <<hist, nOps, nOpens, sinceOpen, distinctSets>>
    /\ UNCHANGED <<faulted, restOfDb>>

Next ==
    \/ DbOpen
    \/ \E key \in DbKeys, val \in DbVals : DbSet(key, val)
    \/ \E key \in DbKeys : DbDelete(key)
    \/ \E key \in DbKeys : DbGet(key)
    \/ DbKill

Spec == Init /\ [][Next]_vars

-----------------------------------------------------------------------------
(* SpecIO: one engine process on an empty directory, whose Set and Delete  *)
(* calls may meet an I/O error; one error is injected per behaviour.       *)

\* What a Set/Delete call that came back as res leaves behind.
IoReturns(res, call, key, val, fault) ==
    /\ IF res.fatal
       THEN ProcessGone(res.d.disk)
       ELSE proc' = proc /\ DbBecomes(res.d)
    /\ hist' = IF res.err = "nil" /\ ~res.fatal
               THEN [hist EXCEPT ![key] =
                        [op |-> IF call = "set" THEN "set" ELSE "del",
                         val |-> val]]
               ELSE hist
    /\ lastCall' = [NoCallYet EXCEPT !.call = call, !.key = key, !.val = val,
                                     !.err = NewError(res.err, ""),
                                     !.fatal = res.fatal, !.wal = res.wal,
                                     !.fault = fault]
    /\ nOps' = nOps + 1
    /\ sinceOpen' = sinceOpen + 1
    /\ faulted' = (faulted \/ fault # NoFault)
    /\ UNCHANGED <<nOpens, distinctSets>>
    /\ UNCHANGED restOfDb

IoOpen == nOpens = 0 /\ DbOpen

\* DB.Set(key, val) with the I/O call named by fault failing
IoSet(key, val, fault) ==
    /\ proc = "up"
    /\ nOps < MaxOps
    /\ fault = NoFault \/ ~faulted
    /\ \E res \in {SetIo(DbState, key, val, fault)} :
          IoReturns(res, "set", key, val, fault)

\* DB.Delete(key) with the I/O call named by fault failing
IoDelete(key, fault) ==
    /\ proc = "up"
    /\ nOps < MaxOps
    /\ fault = NoFault \/ ~faulted
    /\ \E res \in {DeleteIo(DbState, key, fault)} :
          IoReturns(res, "delete", key, <<>>, fault)

NextIO ==
    \/ IoOpen
    \/ \E key \in DbKeys, val \in DbVals, fault \in IoFaults \cup {NoFault} :
          IoSet(key, val, fault)
    \/ \E key \in DbKeys, fault \in IoFaults \cup {NoFault} :
          IoDelete(key, fault)

SpecIO == Init /\ [][NextIO]_vars

-----------------------------------------------------------------------------
(* SpecEnc: the value encoder on one (op, payload): Encode, then Parse.    *)

EncBytes == {0, 1, 120, 255}

RECURSIVE BytesUpTo(_)
BytesUpTo(n) ==
    IF n = 0 THEN {<<>>}
    ELSE BytesUpTo(n - 1)
             \cup {Append(p, b) : p \in {q \in BytesUpTo(n - 1) : Len(q) = n - 1},
                                  b \in EncBytes}

InitEnc ==
    /\ \E op \in {OpKindDelete, OpKindSet}, payload \in BytesUpTo(MaxPayloadLen) :
          enc = [step |-> "new", op |-> op, payload |-> payload,
                 bytes |-> <<>>, parsed |-> Parse(<<OpKindDelete>>)]
    /\ WalIdle /\ DbIdle /\ BwIdle /\ SstIdle /\ BtIdle /\ SklIdle
    /\ BlkIdle /\ MtIdle

\* Encoder.Encode(op, payload)
EncEncode ==
    /\ enc.step = "new"
    /\ enc' = [enc EXCEPT !.step = "encoded",
                          !.bytes = Encode(enc.op, enc.payload)]
    /\ UNCHANGED restOfEnc

\* Encoder.Parse of the encoded bytes
EncParse ==
    /\ enc.step = "encoded"
    /\ enc' = [enc EXCEPT !.step = "parsed", !.parsed = Parse(enc.bytes)]
    /\ UNCHANGED restOfEnc

NextEnc == EncEncode \/ EncParse

SpecEnc == InitEnc /\ [][NextEnc]_vars

-----------------------------------------------------------------------------
(* SpecBlock: one blockWriter. Entries are added in non-decreasing key     *)
(* order, then finish() closes the block.                                  *)

BwKeys == {NilSlice, SliceOf(<<>>), SliceOf(<<97>>), SliceOf(<<97, 98>>),
           SliceOf(<<98>>)}
BwVals == {<<>>, <<1, 120>>}

InitBw ==
    /\ \E cs \in {1, dataChunkSize} :
          bw = [w |-> newBlockWriter(cs), added |-> <<>>, done |-> FALSE,
                end |-> 0]
    /\ WalIdle /\ DbIdle /\ EncIdle /\ SstIdle /\ BtIdle /\ SklIdle
    /\ BlkIdle /\ MtIdle

\* blockWriter.add(key, val); added keeps the entry and the offset it got.
BwAdd(key, val) ==
    /\ ~bw.done
    /\ Len(bw.added) < MaxEntries
    /\ bw.added # <<>> =>
          BytesCompare(bw.added[Len(bw.added)].key.b, key.b) <= 0
    /\ bw' = [bw EXCEPT !.w = blockAdd(@, key, val),
                        !.added = Append(@, [key |-> key, val |-> val,
                                             at |-> Len(bw.w.buf)])]
    /\ UNCHANGED restOfBw

\* blockWriter.finish(); end keeps where the entries ended.
BwFinish ==
    /\ ~bw.done
    /\ bw' = [bw EXCEPT !.w = finish(@), !.done = TRUE,
                        !.end = Len(bw.w.buf)]
    /\ UNCHANGED restOfBw

NextBw ==
    \/ \E key \in BwKeys, val \in BwVals : BwAdd(key, val)
    \/ BwFinish

SpecBlock == InitBw /\ [][NextBw]_vars

-----------------------------------------------------------------------------
(* SpecSst: an SST file of up to two data blocks and Get on it.            *)

SstKeys == {<<97>>, <<98>>, <<98, 98>>, <<99>>}
SstVals == {Encode(OpKindSet, <<120>>), Encode(OpKindDelete, <<>>)}

\* The keys ascending.
RECURSIVE SortedKeys(_)
SortedKeys(ks) ==
    IF ks = {} THEN <<>>
    ELSE LET k == CHOOSE k \in ks : \A o \in ks : BytesCompare(k, o) <= 0
         IN  <<k>> \o SortedKeys(ks \ {k})

\* The blocks of the entries: the first cut of them, then the rest.
SstBlocks(entries, cut) ==
    IF entries = <<>> THEN <<>>
    ELSE IF cut >= Len(entries) THEN <<entries>>
    ELSE <<SubSeq(entries, 1, cut), SubSeq(entries, cut + 1, Len(entries))>>

InitSst ==
    /\ \E ks \in SUBSET SstKeys, val \in SstVals, cut \in 1..2 :
          \E keys \in {SortedKeys(ks)} :
             \E entries \in {[i \in 1..Len(keys) |->
                                 [key |-> keys[i], val |-> val]]} :
                sst = [file |-> WriteSST(SstBlocks(entries, cut)),
                       entries |-> entries, step |-> "built",
                       key |-> <<>>,
                       res |-> GetResult("none", <<>>, FALSE, FALSE)]
    /\ WalIdle /\ DbIdle /\ EncIdle /\ BwIdle /\ BtIdle /\ SklIdle
    /\ BlkIdle /\ MtIdle

\* Reader.Get(searchKey)
SstReaderGet(searchKey) ==
    /\ sst' = [sst EXCEPT !.step = "got", !.key = searchKey,
                          !.res = ReaderGet(sst.file, searchKey)]
    /\ UNCHANGED restOfSst

NextSst == \E searchKey \in SstKeys \cup {<<>>, <<100>>} :
              SstReaderGet(searchKey)

SpecSst == InitSst /\ [][NextSst]_vars

-----------------------------------------------------------------------------
(* SpecBtree: one Btree under Insert and Delete. model is what a map would *)
(* hold: <<>> for an absent key, <<val>> for a present one.                *)

BtKeys == {<<k>> : k \in 1..MaxBtKey}
BtVals(key) == IF key[1] <= MaxRewritten THEN {<<1>>, <<2>>} ELSE {<<1>>}

InitBt ==
    /\ bt = [root |-> NewBTree, model |-> [k \in BtKeys |-> <<>>],
             op |-> "none", ret |-> FALSE, present |-> FALSE, nOps |-> 0]
    /\ WalIdle /\ DbIdle /\ EncIdle /\ BwIdle /\ SstIdle /\ SklIdle
    /\ BlkIdle /\ MtIdle

\* Btree.Insert(key, val)
BtInsert(key, val) ==
    /\ bt.nOps < MaxBtOps
    /\ bt' = [root |-> BtreeInsert(bt.root, key, val),
              model |-> [bt.model EXCEPT ![key] = <<val>>],
              op |-> "insert", ret |-> FALSE, present |-> bt.model[key] # <<>>,
              nOps |-> bt.nOps + 1]
    /\ UNCHANGED restOfBt

\* Btree.Delete(key)
BtDelete(key) ==
    /\ bt.nOps < MaxBtOps
    /\ bt' = [root |-> BtreeDelete(bt.root, key).root,
              model |-> [bt.model EXCEPT ![key] = <<>>],
              op |-> "delete", ret |-> BtreeDelete(bt.root, key).ret,
              present |-> bt.model[key] # <<>>,
              nOps |-> bt.nOps + 1]
    /\ UNCHANGED restOfBt

NextBt ==
    \/ \E key \in BtKeys : \E val \in BtVals(key) : BtInsert(key, val)
    \/ \E key \in BtKeys : BtDelete(key)

SpecBtree == InitBt /\ [][NextBt]_vars

-----------------------------------------------------------------------------
(* SpecSkip: one SkipList under Insert and Delete, the height of every new *)
(* node being any randomHeight() can return.                               *)

SklKeys == {<<>>, <<97>>, <<97, 98>>}
SklVals == {<<>>, <<120>>}

InitSkl ==
    /\ skl = [sl |-> NewSkipList(Cardinality(SklKeys)),
              model |-> [k \in SklKeys |-> <<>>],
              op |-> "none", ret |-> FALSE, present |-> FALSE]
    /\ WalIdle /\ DbIdle /\ EncIdle /\ BwIdle /\ SstIdle /\ BtIdle
    /\ BlkIdle /\ MtIdle

\* SkipList.Insert(key, val)
SklInsert(key, val, height) ==
    /\ \/ slSearch(skl.sl, key).n # 0
       \/ \E i \in DOMAIN skl.sl.nodes : ~skl.sl.nodes[i].used
    /\ skl' = [sl |-> SkipListInsert(skl.sl, key, val, height),
               model |-> [skl.model EXCEPT ![key] = <<val>>],
               op |-> "insert", ret |-> FALSE,
               present |-> skl.model[key] # <<>>]
    /\ UNCHANGED restOfSkl

\* SkipList.Delete(key)
SklDelete(key) ==
    /\ \E d \in {SkipListDelete(skl.sl, key)} :
          skl' = [sl |-> d.sl,
                  model |-> [skl.model EXCEPT ![key] = <<>>],
                  op |-> "delete", ret |-> d.ret,
                  present |-> skl.model[key] # <<>>]
    /\ UNCHANGED restOfSkl

NextSkl ==
    \/ \E key \in SklKeys, val \in SklVals, height \in 1..MaxHeight :
          SklInsert(key, val, height)
    \/ \E key \in SklKeys : SklDelete(key)

SpecSkip == InitSkl /\ [][NextSkl]_vars

-----------------------------------------------------------------------------
(* SpecSearch: a block of restart keys, written by a blockWriter of chunk  *)
(* size 1 so that every entry is a restart point, and blockReader.search   *)
(* in it. keys are the keys added, in order.                               *)

MaxRestarts == 4

BlkKeys == {<<>>, <<97>>, <<97, 98>>, <<98>>, <<99>>}
BlkSearchKeys == BlkKeys \cup {<<97, 97>>, <<100>>}

\* The blockReader over the finished block: buf is the block in an array of
\* maxBlockSize bytes, the offsets start (numOffsets + 2) * 4 bytes before
\* the end of the block.
blockReaderOn(block, numOffsets) ==
    [mem |-> block \o Zeros(maxBlockSize - Len(block)),
     len |-> Len(block),
     offStart |-> Len(block) - (numOffsets + 2) * 4,
     numOffsets |-> numOffsets,
     panic |-> FALSE]

InitBlk ==
    /\ blk = [w |-> newBlockWriter(1), keys |-> <<>>, searched |-> FALSE,
              searchKey |-> <<>>, condition |-> moveUpWhenKeyGTE, ret |-> 0]
    /\ WalIdle /\ DbIdle /\ EncIdle /\ BwIdle /\ SstIdle /\ BtIdle /\ SklIdle
    /\ MtIdle

\* One more restart key, greater than the last.
BlkAdd(key) ==
    /\ Len(blk.keys) < MaxRestarts
    /\ blk.keys # <<>> => BytesCompare(blk.keys[Len(blk.keys)], key) < 0
    /\ blk' = [blk EXCEPT !.w = blockAdd(@, SliceOf(key), <<>>),
                          !.keys = Append(@, key),
                          !.searched = FALSE]
    /\ UNCHANGED restOfBlk

\* blockReader.search(searchKey, condition) on the block as finish() leaves
\* it.
BlkSearch(searchKey, condition) ==
    /\ blk' = [blk EXCEPT !.searched = TRUE,
                          !.searchKey = searchKey,
                          !.condition = condition,
                          !.ret = search(blockReaderOn(finish(blk.w).buf,
                                                       Len(blk.keys)),
                                         searchKey, condition)]
    /\ UNCHANGED restOfBlk

NextBlk ==
    \/ \E key \in BlkKeys : BlkAdd(key)
    \/ \E searchKey \in BlkSearchKeys,
          condition \in {moveUpWhenKeyGTE, moveUpWhenKeyGT} :
          BlkSearch(searchKey, condition)

SpecSearch == InitBlk /\ [][NextBlk]_vars

-----------------------------------------------------------------------------
(* SpecMem: one Memtable under HasRoomForWrite, Insert, InsertTombstone    *)
(* and Get. Insert does not look at the room itself (the replay of a log   *)
(* inserts without it), so the calls come in any order, up to             *)
(* MaxUsedBytes used bytes.                                                *)

MaxUsedBytes == 6

MtKeys == {<<97>>, <<98>>, <<97, 98>>}
MtVals == {<<>>, <<120>>}

InitMt ==
    /\ mt = [m |-> NewMemtable(0), op |-> "new", key |-> <<>>, val |-> <<>>,
             room |-> FALSE, got |-> MemtableGet(NewMemtable(0), <<>>)]
    /\ WalIdle /\ DbIdle /\ EncIdle /\ BwIdle /\ SstIdle /\ BtIdle /\ SklIdle
    /\ BlkIdle

\* m.HasRoomForWrite(key, val)
MtHasRoom(key, val) ==
    /\ mt' = [mt EXCEPT !.op = "room", !.key = key, !.val = val,
                        !.room = HasRoomForWrite(mt.m, key, val)]
    /\ UNCHANGED restOfMt

\* m.Insert(key, val)
MtInsert(key, val) ==
    /\ mt.m.sizeUsed + Len(key) + Len(val) + 1 <= MaxUsedBytes
    /\ mt' = [mt EXCEPT !.op = "insert", !.key = key, !.val = val,
                        !.m = Insert(@, key, val)]
    /\ UNCHANGED restOfMt

\* m.InsertTombstone(key)
MtInsertTombstone(key) ==
    /\ mt.m.sizeUsed + 1 <= MaxUsedBytes
    /\ mt' = [mt EXCEPT !.op = "tombstone", !.key = key, !.val = <<>>,
                        !.m = InsertTombstone(@, key)]
    /\ UNCHANGED restOfMt

\* m.Get(key)
MtGet(key) ==
    /\ mt' = [mt EXCEPT !.op = "get", !.key = key, !.val = <<>>,
                        !.got = MemtableGet(mt.m, key)]
    /\ UNCHANGED restOfMt

NextMt ==
    \/ \E key \in MtKeys, val \in MtVals : MtHasRoom(key, val)
    \/ \E key \in MtKeys, val \in MtVals : MtInsert(key, val)
    \/ \E key \in MtKeys : MtInsertTombstone(key)
    \/ \E key \in MtKeys : MtGet(key)

SpecMem == InitMt /\ [][NextMt]_vars

-----------------------------------------------------------------------------
(* Properties of the engine (Spec). hist[k] is the last Set/Delete of k    *)
(* that returned without error.                                            *)

InMemtables(key) ==
    \E i \in 1..Len(queue) : MemtableGet(queue[i], key).found

SstHolds(j, key) ==
    /\ sstables[j] \in DOMAIN disk
    /\ \E i \in 1..Len(disk[sstables[j]].entries) :
          disk[sstables[j]].entries[i].key = key

InSSTables(key) == \E j \in 1..Len(sstables) : SstHolds(j, key)

\* What Get is to answer for an operation that was the last on its key.
AnswersFor(g, op) ==
    /\ ~g.fatal
    /\ op.op = "set" => (g.err = NilError /\ g.val = op.val)
    /\ op.op = "del" => g.err.msg = "key not found"

\* The engine was opened again after its process had gone, and nothing was
\* written since.
Reopened == proc = "up" /\ nOpens >= 2 /\ sinceOpen = 0

\* C1 (as claimed): durability across a crash. After the process was killed
\* and the directory opened again, Get(k) returns v for every key whose last
\* Set/Delete that returned without error is Set(k, v).
DurabilityAcrossCrash ==
    Reopened =>
        \A key \in DbKeys :
            hist[key].op = "set" => AnswersFor(Get(DbState, key), hist[key])

\* C2 (as claimed): last-writer-wins without a crash. On an engine that was
\* opened once and is still running, Get(k) returns the payload of the last
\* Set(k, .) when no Delete(k) came after it, and the key-not-found error
\* when the last operation on k was Delete(k).
LastWriterWins ==
    (proc = "up" /\ nOpens = 1) =>
        \A key \in DbKeys :
            hist[key].op # "none" => AnswersFor(Get(DbState, key), hist[key])

\* C3 (as claimed): Get of a key that is in no memtable and in no SST returns
\* the key-not-found error as a value, in every state of a running engine,
\* and the process goes on.
GetAbsentKeyNotFound ==
    proc = "up" =>
        \A key \in DbKeys :
            (~InMemtables(key) /\ ~InSSTables(key)) =>
                /\ ~Get(DbState, key).fatal
                /\ Get(DbState, key).err.msg = "key not found"

\* C4 (as claimed): Get goes on to the next older SST when an SST reports
\* key-not-found. A key that is in no memtable and whose newest SST j has
\* newer SSTs above it is answered from SST j.
GetContinuesToOlderSST ==
    proc = "up" =>
        \A key \in DbKeys : \A j \in 1..(Len(sstables) - 1) :
            (/\ ~InMemtables(key)
             /\ SstHolds(j, key)
             /\ \A n \in (j + 1)..Len(sstables) : ~SstHolds(n, key)) =>
                /\ ~Get(DbState, key).fatal
                /\ Get(DbState, key) =
                       getFromSSTables([DbState EXCEPT !.sstables =
                                           SubSeq(sstables, 1, j)],
                                       key, j)

\* C5 (as claimed): replay. When all the engine ever received are Set calls
\* for distinct keys, and its process went without a Close and the directory
\* was opened again, Get on each of the keys returns its value.
ReplayDistinctSets ==
    (Reopened /\ distinctSets) =>
        \A key \in DbKeys :
            hist[key].op = "set" =>
                /\ Get(DbState, key).err = NilError
                /\ Get(DbState, key).val = hist[key].val

\* The records a reader finds in the log bytes fb, up to the first error.
RECURSIVE logRecords(_, _)
RECURSIVE logRecordsNext(_, _)
logRecordsNext(nx, fb) ==
    IF nx.err # "nil" THEN <<>>
    ELSE <<[key |-> nx.key, val |-> Encode(nx.val.opKind, nx.val.val)]>>
             \o logRecords(nx.r, fb)

logRecords(r, fb) == logRecordsNext(ReaderNext(r, fb), fb)

\* The log file n holds a record with this key and encoded value.
LogHolds(n, key, val) ==
    /\ n \in DOMAIN disk
    /\ \E rec \in {logRecords(NewReader, disk[n].bytes)} :
          \E i \in 1..Len(rec) : rec[i].key = key /\ rec[i].val = val

\* C20 (as claimed): WAL/memtable correspondence. After a Set or Delete has
\* returned, for every memtable of the queue and every key in it, the record
\* with the value the memtable holds for the key is in the log file the
\* memtable refers to.
WalMemtableCorrespondence ==
    (proc = "up" /\ lastCall.call \in {"set", "delete"}) =>
        \A i \in 1..Len(queue) : \A e \in 1..Len(queue[i].sl) :
            LogHolds(queue[i].logMeta, queue[i].sl[e].key, queue[i].sl[e].val)

-----------------------------------------------------------------------------
(* Properties of the engine's error paths (SpecIO). *)

\* A step that is a Set or Delete call.
IsWriteCall == nOps' = nOps + 1

\* C11: WAL before memtable. In every Set/Delete call, the memtable queue (a
\* rotation, or the contents of a memtable) changes only when record() has
\* returned nil with the whole record written and synced; and a call that
\* returns an error (the record or the rotation of the log failed) leaves
\* the queue and every memtable as they were.
WalBeforeMemtable ==
    [][IsWriteCall =>
          /\ queue' # queue => lastCall'.wal
          /\ (lastCall'.err # NilError /\ ~lastCall'.fatal) => queue' = queue
      ]_vars

\* C11 witness: a Set whose record was written met an error in the rotation
\* of the log and returned it.
WalBeforeMemtableWitness ==
    /\ lastCall.call = "set"
    /\ lastCall.fault.kind \in {"close", "closeFile", "create"}
    /\ lastCall.err # NilError
    /\ lastCall.wal
    /\ proc = "up"

\* C12 (as claimed): an I/O error met while flushing memtables inside a Set
\* or Delete is returned to the caller as an error value, and the process
\* goes on.
FlushErrorReturned ==
    (/\ lastCall.call \in {"set", "delete"}
     /\ lastCall.fault.kind \in FlushFaults
     /\ lastCall.err # NilError) =>
        ~lastCall.fatal /\ proc = "up"

-----------------------------------------------------------------------------
(* Properties of the memtable queue and of the flush (Spec, SpecIO). *)

\* The queue DB.replayWAL has built when its loop over the log fm of the
\* directory dk ends, before the last rotation and the flush.
replayedQueue(dk, fm) ==
    replayLoop(rotateMemtables([loadFiles(dk) EXCEPT !.walw.fm = fm]),
               1, NewReader, dk[fm].bytes).d.queue

\* Every record of the replay went to the memtable that was the last of the
\* queue and had room for it: no memtable is over its limit, and a memtable
\* rotated in for a record holds that record.
ReplayWritesNewest(q) ==
    /\ \A i \in 1..Len(q) : q[i].sizeUsed <= memtableSizeLimit
    /\ \A i \in 2..Len(q) : q[i].sl # <<>>

\* C21 (as claimed): only the newest memtable is written. A Set or Delete
\* puts its entry into the last memtable of the queue and leaves every other
\* memtable of the queue as it was; during the WAL replay of Open a record
\* that finds no room in the current memtable goes to the fresh memtable
\* rotated in for it, so no memtable changes once another is behind it.
OnlyNewestMemtableWritten ==
    [][/\ IsWriteCall =>
            /\ MemtableGet(queue'[Len(queue')], lastCall'.key).found
            /\ \A i \in 1..(Len(queue') - 1) :
                   \E j \in 1..Len(queue) : queue'[i] = queue[j]
       /\ (proc = "down" /\ proc' = "up") =>
            \A fm \in DOMAIN disk :
                disk[fm].kind = "log" =>
                    ReplayWritesNewest(replayedQueue(disk, fm))
      ]_vars

\* What a call adds to usedBytes: Insert adds len(key) + len(val) + 1,
\* InsertTombstone adds 1.
writeSize(c) ==
    IF c.call = "set" THEN Len(c.key) + Len(c.val) + 1 ELSE 1

\* C22: flush trigger. At the end of a Set/Delete the sizes of all memtables
\* of the queue are summed (the sum before the call plus what the call
\* added); above memtableFlushThreshold every memtable but the mutable one
\* is flushed before the call returns, otherwise no SST is made and no
\* memtable leaves the queue. So after the call the queue holds only the
\* mutable memtable or the sum is at most memtableFlushThreshold.
FlushTrigger ==
    [][IsWriteCall =>
          /\ IF SumSizes(queue) + writeSize(lastCall') > memtableFlushThreshold
             THEN /\ Len(queue') = 1
                  /\ Len(sstables') > Len(sstables)
                  /\ Len(sstables') - Len(sstables) \in
                         {Len(queue) - 1, Len(queue)}
             ELSE /\ sstables' = sstables
                  /\ Len(queue') >= Len(queue)
                  /\ SumSizes(queue') = SumSizes(queue) + writeSize(lastCall')
          /\ Len(queue') = 1 \/ SumSizes(queue') <= memtableFlushThreshold
      ]_vars

\* C22 witness: the third call since Open on an empty directory was a Set
\* that flushed two memtables and left the mutable one.
FlushTriggerWitness ==
    /\ proc = "up"
    /\ lastCall.call = "set"
    /\ nOpens = 1
    /\ sinceOpen = 3
    /\ Len(sstables) = 2
    /\ Len(queue) = 1
    /\ queue[1].sizeUsed > 0

\* On an engine opened once, a key that is in no memtable has its last
\* Set/Delete in the last SST of the list that holds the key.
NewestSstIsLatest ==
    (proc = "up" /\ nOpens = 1) =>
        \A key \in DbKeys : \A j \in 1..Len(sstables) :
            (/\ ~InMemtables(key)
             /\ SstHolds(j, key)
             /\ \A n \in (j + 1)..Len(sstables) : ~SstHolds(n, key)) =>
                SstGet(disk[sstables[j]], key).ev =
                    [opKind |-> IF hist[key].op = "set" THEN OpKindSet
                                ELSE OpKindDelete,
                     val |-> hist[key].val]

\* C23: flush order. A flush inside a Set/Delete writes the memtables of the
\* queue but the last, oldest first, each to an SST file of a number that
\* was not in the directory, and appends these numbers to the end of the SST
\* list in the same order; the list is otherwise unchanged, so a later SST
\* never holds older data of a key than an earlier one; after the flush the
\* queue is the mutable memtable alone.
FlushOrder ==
    [][IsWriteCall =>
          /\ Len(sstables') - Len(sstables) \in 0..Len(queue)
          /\ SubSeq(sstables', 1, Len(sstables)) = sstables
          /\ \A i \in 1..(Len(sstables') - Len(sstables)) :
                 /\ sstables'[Len(sstables) + i] \notin DOMAIN disk
                 /\ sstables'[Len(sstables) + i] \in DOMAIN disk'
                 /\ disk'[sstables'[Len(sstables) + i]] =
                        ConvertMemtableToSST(queue[i])
                 /\ \A j \in 1..(i - 1) :
                        sstables'[Len(sstables) + j] <
                            sstables'[Len(sstables) + i]
          /\ Len(sstables') > Len(sstables) =>
                 (Len(queue') = 1 /\ mutable' = 1)
          /\ NewestSstIsLatest'
      ]_vars

\* C23 witness: a flush wrote two memtables that hold the same key with
\* different values; the SST list has the older one first.
FlushOrderWitness ==
    /\ proc = "up"
    /\ nOpens = 1
    /\ lastCall.call \in {"set", "delete"}
    /\ sinceOpen = 4
    /\ Len(sstables) = 2
    /\ Len(queue) = 1
    /\ \E key \in DbKeys :
          /\ SstHolds(1, key)
          /\ SstHolds(2, key)
          /\ ~InMemtables(key)
          /\ SstGet(disk[sstables[1]], key) # SstGet(disk[sstables[2]], key)

\* The engine as the call c leaves it, with the fault of c injected.
afterCall(c) ==
    IF c.call = "set" THEN SetIo(DbState, c.key, c.val, c.fault).d
    ELSE DeleteIo(DbState, c.key, c.fault).d

\* The positions in the queue of the memtables the call c is going to flush:
\* all but the last, after the rotation if c does not fit.
flushedBy(c) ==
    IF HasRoomForWrite(queue[mutable], c.key, c.val)
    THEN 1..(Len(queue) - 1)
    ELSE 1..Len(queue)

\* The SST files closed by flushMemtables (listed in d.sstables) hold the
\* entry.
InClosedSst(d, ent) ==
    \E j \in 1..Len(d.sstables) :
        \E e \in 1..Len(d.disk[d.sstables[j]].entries) :
            d.disk[d.sstables[j]].entries[e] = ent

\* A log file of the directory dk holds a record for the entry.
InSomeLog(dk, ent) ==
    \E n \in DOMAIN dk :
        /\ dk[n].kind = "log"
        /\ \E rec \in {logRecords(NewReader, dk[n].bytes)} :
               \E i \in 1..Len(rec) : rec[i] = ent

\* C24 (as claimed): flush crash-safety. When the process ends inside
\* flushMemtables, at any of its steps on any memtable, the log of a flushed
\* memtable is gone only if the SST with the memtable's contents was closed,
\* and every entry of every memtable being flushed is in a closed SST or in
\* a log file that is still in the directory.
FlushCrashSafety ==
    [][(IsWriteCall /\ lastCall'.fatal) =>
          \A i \in flushedBy(lastCall') :
              /\ queue[i].logMeta \notin DOMAIN disk' =>
                     \E j \in 1..Len(afterCall(lastCall').sstables) :
                         disk'[afterCall(lastCall').sstables[j]] =
                             ConvertMemtableToSST(queue[i])
              /\ \A e \in 1..Len(queue[i].sl) :
                     \/ InClosedSst(afterCall(lastCall'), queue[i].sl[e])
                     \/ InSomeLog(disk', queue[i].sl[e])
      ]_vars

\* The log files of the directory.
LogFiles == {n \in DOMAIN disk : disk[n].kind = "log"}

\* C25: WAL lifecycle. After Open and after every Set/Delete that returned,
\* each memtable of the queue refers to a log file, two memtables refer to
\* different files, the log files in the directory are exactly the files
\* the memtables of the queue refer to, and the file of the current writer
\* is the one of the mutable memtable.
WalLifecycle ==
    proc = "up" =>
        /\ \A i, j \in 1..Len(queue) :
               i # j => queue[i].logMeta # queue[j].logMeta
        /\ LogFiles = {queue[i].logMeta : i \in 1..Len(queue)}
        /\ queue # <<>>
        /\ walw.fm = queue[mutable].logMeta
        /\ mutable = Len(queue)

\* C25 witness: a running engine with two memtables and two log files, after
\* a flush has deleted the logs of the memtables it wrote.
WalLifecycleWitness ==
    /\ proc = "up"
    /\ lastCall.call \in {"set", "delete"}
    /\ Len(queue) = 2
    /\ Cardinality(LogFiles) = 2
    /\ sstables # <<>>

\* The last SST of the list that holds the key holds the key's last
\* Set/Delete.
LastSstHoldsLatest(key) ==
    \E j \in 1..Len(sstables) :
        /\ SstHolds(j, key)
        /\ \A n \in (j + 1)..Len(sstables) : ~SstHolds(n, key)
        /\ SstGet(disk[sstables[j]], key).ev =
               [opKind |-> IF hist[key].op = "set" THEN OpKindSet
                           ELSE OpKindDelete,
                val |-> hist[key].val]

\* C26 (as claimed): Open postcondition. When Open returns without error,
\* every log file that was in the directory is deleted and the engine's log
\* list is empty; the SSTs that were there come first in the SST list and
\* the SSTs of the replay after them; every record of the logs is in an SST
\* of the replay (stated for the directory of an engine that never flushed,
\* where the records of the logs are the Set/Delete calls that returned:
\* the last of them on each key is what the last SST holding the key
\* holds); and the queue is one empty memtable, the mutable one, bound to a
\* new, empty log file.
OpenPostcondition ==
    [][(proc = "down" /\ proc' = "up") =>
          /\ LogFiles \cap DOMAIN disk' = {}
          /\ logs' = <<>>
          /\ SubSeq(sstables', 1, Len(ListSSTables(disk))) = ListSSTables(disk)
          /\ Len(queue') = 1
          /\ mutable' = 1
          /\ queue'[1] = NewMemtable(walw'.fm)
          /\ walw'.fm \notin DOMAIN disk
          /\ walw'.fm \in DOMAIN disk'
          /\ disk'[walw'.fm] = LogFile(NewFile)
          /\ (nOpens = 1 /\ ListSSTables(disk) = <<>>) =>
                 \A key \in DbKeys :
                     hist[key].op # "none" => LastSstHoldsLatest(key)'
      ]_vars

\* The entry of the call c fits in the mutable memtable.
Fits(c) == HasRoomForWrite(queue[mutable], c.key, c.val)

\* After a call that left the engine running the queue is not empty and its
\* last element is the mutable memtable.
MutableIsLast == proc = "up" => (queue # <<>> /\ mutable = Len(queue))

\* C27 (as claimed): queue shape. From the return of Open on the queue is
\* not empty and its last element is the mutable memtable; a Set/Delete
\* whose entry fits in the mutable memtable leaves the length of the queue
\* and the current WAL file unchanged.
QueueShape ==
    [][/\ MutableIsLast'
       /\ (IsWriteCall /\ Fits(lastCall')) =>
              (Len(queue') = Len(queue) /\ walw'.fm = walw.fm)
      ]_vars

\* C27 (amended): the same, but a Set/Delete whose entry fits leaves the
\* length of the queue unchanged only when the flush trigger does not fire;
\* when it fires the queue is cut to the mutable memtable. In both cases
\* there is no rotation: the current WAL file stays and the mutable
\* memtable is the one of before with the entry added.
QueueShapeUnlessFlushed ==
    [][/\ MutableIsLast'
       /\ (IsWriteCall /\ Fits(lastCall')) =>
              /\ walw'.fm = walw.fm
              /\ queue'[mutable'] =
                     IF lastCall'.call = "set"
                     THEN Insert(queue[mutable], lastCall'.key, lastCall'.val)
                     ELSE InsertTombstone(queue[mutable], lastCall'.key)
              /\ Len(queue') =
                     IF SumSizes(queue) + writeSize(lastCall') >
                            memtableFlushThreshold
                     THEN 1
                     ELSE Len(queue)
      ]_vars

\* C27 witness: the fourth call on a new engine was a Delete that fitted in
\* the third memtable (2 bytes used) and set off the flush of the two
\* others: the queue went from three memtables to one.
QueueShapeWitness ==
    /\ proc = "up"
    /\ nOpens = 1
    /\ sinceOpen = 4
    /\ lastCall.call = "delete"
    /\ Len(sstables) = 2
    /\ Len(queue) = 1
    /\ queue[1].sizeUsed = 3
    /\ Len(queue[1].sl) = 2

\* The engine inside the call c when maybeScheduleFlush is reached: the
\* record is in the log, the rotation (if any) is done and the entry is in
\* the mutable memtable.
beforeFlush(c) ==
    IF c.call = "set"
    THEN mutableInsert(
             prepMemtableForKV(walRecord(DbState, c.key,
                                         Encode(OpKindSet, c.val)),
                               c.key, c.val),
             c.key, c.val)
    ELSE mutableInsertTombstone(
             prepMemtableForKV(walRecord(DbState, c.key,
                                         Encode(OpKindDelete, <<>>)),
                               c.key, <<>>),
             c.key)

\* What the flush made of the engine b: the mutable memtable, the writer and
\* its log file are as in b, the SSTs listed in b are listed first and their
\* files are as in b, and the directory lost the logs of the other memtables
\* and gained the new SSTs, nothing else.
FlushFrameFrom(b) ==
    /\ queue' = <<b.queue[b.mutable]>>
    /\ walw' = b.walw
    /\ disk'[walw'.fm] = b.disk[b.walw.fm]
    /\ SubSeq(sstables', 1, Len(b.sstables)) = b.sstables
    /\ \A j \in 1..Len(b.sstables) :
           disk'[b.sstables[j]] = b.disk[b.sstables[j]]
    /\ DOMAIN b.disk \ DOMAIN disk' =
           {b.queue[i].logMeta : i \in 1..(Len(b.queue) - 1)}
    /\ DOMAIN disk' \ DOMAIN b.disk =
           {sstables'[j] : j \in (Len(b.sstables) + 1)..Len(sstables')}
    /\ \A n \in DOMAIN disk' \cap DOMAIN b.disk : disk'[n] = b.disk[n]

\* C28: flush frame. A flush set off by a Set/Delete leaves the mutable
\* memtable (entries, usedBytes, WAL reference), the current WAL writer and
\* every SST listed before unchanged; it removes the other memtables from
\* the queue, appends SSTs and deletes the log files of the memtables it
\* wrote.
FlushFrame ==
    [][(IsWriteCall /\ Len(sstables') > Len(sstables)) =>
          \E b \in {beforeFlush(lastCall')} : FlushFrameFrom(b)
      ]_vars

\* C28 witness: a flush on an engine that had an SST from the replay of
\* its Open: the third call since then left its entry alone in the queue.
FlushFrameWitness ==
    /\ proc = "up"
    /\ lastCall.call \in {"set", "delete"}
    /\ nOpens = 2
    /\ sinceOpen = 3
    /\ Len(queue) = 1
    /\ queue[1].sizeUsed = writeSize(lastCall)
    /\ Len(sstables) >= 3

\* No memtable of the queue q is over its limit.
WithinLimit(q) == \A i \in 1..Len(q) : q[i].sizeUsed <= memtableSizeLimit

\* C31 (as claimed): memtable size bound. With every entry no larger than
\* memtableSizeLimit, every memtable that is in the queue after a call, and
\* every memtable the WAL replay of an Open has in the queue when its loop
\* over a log ends, has usedBytes <= memtableSizeLimit.
MemtableSizeBound ==
    [][/\ WithinLimit(queue')
       /\ (proc = "down" /\ proc' = "up") =>
              \A fm \in LogFiles : WithinLimit(replayedQueue(disk, fm))
      ]_vars

\* C32: the SST list is append-only. No step of the engine (Open with its
\* replay, Set, Delete, Get, a flush, a kill) deletes or rewrites an SST
\* file; while the process runs the SST list only grows at its end; an Open
\* lists the SST files of the directory in the order of their numbers and
\* appends after them; and the numbers in the list are ascending, so that
\* listing the directory again keeps the order.
SstListAppendOnly ==
    [][/\ \A n \in DOMAIN disk :
              disk[n].kind = "sst" => (n \in DOMAIN disk' /\ disk'[n] = disk[n])
       /\ (proc = "up" /\ proc' = "up") =>
              /\ Len(sstables') >= Len(sstables)
              /\ SubSeq(sstables', 1, Len(sstables)) = sstables
       /\ (proc = "down" /\ proc' = "up") =>
              SubSeq(sstables', 1, Len(ListSSTables(disk))) = ListSSTables(disk)
       /\ \A i, j \in 1..Len(sstables') :
              i < j => sstables'[i] < sstables'[j]
       /\ \A i \in 1..Len(sstables') :
              sstables'[i] \in DOMAIN disk' /\ disk'[sstables'[i]].kind = "sst"
      ]_vars

\* C32 witness: an engine opened on a directory with an SST of an earlier
\* process has flushed two memtables behind it.
SstListWitness ==
    /\ proc = "up"
    /\ nOpens = 2
    /\ lastCall.call = "set"
    /\ sinceOpen = 3
    /\ Len(queue) = 1
    /\ Len(sstables) = 3
    /\ disk[sstables[1]].entries # <<>>
    /\ sstables[1] < sstables[2]
    /\ sstables[2] < sstables[3]

\* C35 (as claimed): no empty flush. Every SST file an engine step creates,
\* in the flush of a Set/Delete and in the flush at the end of a WAL replay,
\* holds at least one entry.
NoEmptyFlush ==
    [][\A n \in DOMAIN disk' :
           (n \notin DOMAIN disk /\ disk'[n].kind = "sst") =>
               disk'[n].entries # <<>>
      ]_vars

-----------------------------------------------------------------------------
(* Properties of the value encoder (SpecEnc). *)

\* C16: value encoder round-trip. The encoded value is one byte longer than
\* the payload; parsing it gives the payload back, and a tombstone exactly
\* when the operation was DELETE.
EncoderRoundTrip ==
    /\ enc.step \in {"encoded", "parsed"} =>
          Len(enc.bytes) = 1 + Len(enc.payload)
    /\ enc.step = "parsed" =>
          /\ enc.parsed.val = enc.payload
          /\ IsTombstone(enc.parsed) <=> enc.op = OpKindDelete

\* C16 witness: a DELETE with a payload of the greatest length went through
\* Encode and Parse.
EncoderRoundTripWitness ==
    /\ enc.step = "parsed"
    /\ enc.op = OpKindDelete
    /\ Len(enc.payload) = MaxPayloadLen

-----------------------------------------------------------------------------
(* Properties of the block writer (SpecBlock). *)

\* The trailer of a finished block: the recorded count and the offsets.
trailerCount(block) == Uint32(block, Len(block) - 8)

trailerOffsets(block, end) ==
    [i \in 1..((Len(block) - end - 8) \div 4) |->
        Uint32(block, end + 4 * (i - 1))]

\* The entries of one chunk, from byte at up to byte end; the first key of
\* the chunk is the prefix of the others.
RECURSIVE decodeChunk(_, _, _, _, _)
decodeChunk(block, at, end, prefix, isFirst) ==
    IF at >= end THEN <<>>
    ELSE LET sh == Uvarint(Slice(block, at, end))
             kl == Uvarint(Slice(block, at + sh.n, end))
             vl == Uvarint(Slice(block, at + sh.n + kl.n, end))
             ks == at + sh.n + kl.n + vl.n
             key == Slice(prefix, 0, sh.val)
                       \o Slice(block, ks, ks + kl.val)
             val == Slice(block, ks + kl.val, ks + kl.val + vl.val)
         IN  <<[key |-> key, val |-> val]>>
                \o decodeChunk(block, ks + kl.val + vl.val, end,
                               IF isFirst THEN key ELSE prefix, FALSE)

\* The entries of a block, chunk by chunk from the restart offsets.
RECURSIVE decodeChunks(_, _, _, _)
decodeChunks(block, offsets, i, end) ==
    IF i > Len(offsets) THEN <<>>
    ELSE decodeChunk(block, offsets[i],
                     IF i < Len(offsets) THEN offsets[i + 1] ELSE end,
                     <<>>, TRUE)
            \o decodeChunks(block, offsets, i + 1, end)

decodeBlock(block, end) ==
    decodeChunks(block, trailerOffsets(block, end), 1, end)

CeilDiv(n, k) == (n + k - 1) \div k

\* The byte offsets of the first entry of each chunk of the added entries.
chunkStarts(added, k) ==
    [i \in 1..CeilDiv(Len(added), k) |-> added[(i - 1) * k + 1].at]

addedPairs(added) ==
    [i \in 1..Len(added) |-> [key |-> added[i].key.b, val |-> added[i].val]]

\* C14: a finished block decodes to the (key, value) pairs added, in order,
\* and the restart offsets of its trailer are the byte offsets of the first
\* entry of each chunk.
BlockRoundTrip ==
    bw.done =>
        /\ decodeBlock(bw.w.buf, bw.end) = addedPairs(bw.added)
        /\ trailerOffsets(bw.w.buf, bw.end)
              = chunkStarts(bw.added, bw.w.chunkSize)

\* C15: after n >= 1 entries and finish, the trailer holds ceil(n/K) restart
\* offsets, the i-th being the byte offset of entry i*K, and the recorded
\* count is that number.
RestartPoints ==
    (bw.done /\ Len(bw.added) >= 1) =>
        LET n == CeilDiv(Len(bw.added), bw.w.chunkSize)
            offsets == trailerOffsets(bw.w.buf, bw.end)
        IN  /\ Len(offsets) = n
            /\ trailerCount(bw.w.buf) = n
            /\ \A i \in 0..(n - 1) :
                  offsets[i + 1] = bw.added[i * bw.w.chunkSize + 1].at

-----------------------------------------------------------------------------
(* Properties of the SST reader (SpecSst). *)

\* The search key is greater than every key of the SST.
BeyondLargestKey ==
    \A i \in 1..Len(sst.entries) :
        BytesCompare(sst.key, sst.entries[i].key) > 0

\* C13: Get with a search key greater than the largest key of the SST, or on
\* an SST with no entries, returns key-not-found, reads no data block and
\* reads nothing outside the index offsets.
GetBeyondLargestKey ==
    (sst.step = "got" /\ BeyondLargestKey) =>
        /\ sst.res.out = "notfound"
        /\ ~sst.res.dataRead
        /\ ~sst.res.outside

-----------------------------------------------------------------------------
(* Properties of the B-tree (SpecBtree). *)

\* The keys of an in-order traversal.
RECURSIVE inorder(_)
RECURSIVE inorderFrom(_, _)
inorderFrom(n, i) ==
    IF i > Len(n.children) THEN <<>>
    ELSE inorder(n.children[i])
            \o (IF i <= Len(n.items) THEN <<n.items[i].key>> ELSE <<>>)
            \o inorderFrom(n, i + 1)

inorder(n) ==
    IF isLeaf(n) THEN [i \in 1..Len(n.items) |-> n.items[i].key]
    ELSE inorderFrom(n, 1)

StrictlyAscending(keys) ==
    \A i \in 1..(Len(keys) - 1) : BytesCompare(keys[i], keys[i + 1]) < 0

\* C17: the tree is the map of the Inserts and Deletes made: Find returns
\* the value last inserted for a present key and an error for any other,
\* Delete has returned true exactly when the key was present, and the keys
\* of an in-order traversal are strictly ascending.
BtreeIsMap ==
    /\ \A key \in BtKeys : Find(bt.root, key) = bt.model[key]
    /\ bt.op = "delete" => (bt.ret <=> bt.present)
    /\ bt.root # <<>> => StrictlyAscending(inorder(bt.root[1]))

\* Every node below n, n included, with whether it is the root.
RECURSIVE Occupied(_, _)
Occupied(n, isRoot) ==
    /\ Len(n.items) <= maxItems
    /\ ~isRoot => Len(n.items) >= minItems
    /\ ~isLeaf(n) => Len(n.children) = Len(n.items) + 1
    /\ (isRoot /\ ~isLeaf(n)) => Len(n.children) >= 2
    /\ \A i \in 1..Len(n.children) : Occupied(n.children[i], FALSE)

\* C18: every node holds at most maxItems items, every node but the root at
\* least minItems, every non-leaf node one child more than items, and a
\* non-leaf root has at least 2 children.
NodeOccupancy == bt.root # <<>> => Occupied(bt.root[1], TRUE)

\* C18 witness: a Delete has removed an item and left a tree of three levels
\* or more, whose root has a single item.
NodeOccupancyWitness ==
    /\ bt.op = "delete" /\ bt.ret
    /\ bt.root # <<>>
    /\ Len(bt.root[1].items) = 1
    /\ ~isLeaf(bt.root[1])
    /\ ~isLeaf(bt.root[1].children[1])

\* The depths of the leaves below n, n being at depth d.
RECURSIVE leafDepths(_, _)
leafDepths(n, d) ==
    IF isLeaf(n) THEN {d}
    ELSE UNION {leafDepths(n.children[i], d + 1) : i \in 1..Len(n.children)}

\* The levels below the root along the first children; 0 for a nil root and
\* for a root that is a leaf.
RECURSIVE levelsBelow(_)
levelsBelow(n) == IF isLeaf(n) THEN 0 ELSE 1 + levelsBelow(n.children[1])

treeHeight(root) == IF root = <<>> THEN 0 ELSE levelsBelow(root[1])

\* All leaves at one depth, and no root without items.
Balanced(root) ==
    root # <<>> =>
        /\ Cardinality(leafDepths(root[1], 0)) = 1
        /\ Len(root[1].items) >= 1

\* The keys a Delete step may have been called with: the key that left the
\* map, or any absent key when the map did not change.
DeletedKeys(before, after) ==
    {k \in BtKeys : after[k] = <<>> /\ (before = after \/ before[k] # <<>>)}

\* Btree.Delete on what node.delete returned (r = [node, deleted]): with a
\* non-leaf root left without items the only child becomes the root and the
\* tree is one level lower; otherwise the height stays.
DeleteLevels(r, root, newRoot) ==
    newRoot = btreeDeleted(r).root =>
        IF Len(r.node.items) = 0 /\ ~isLeaf(r.node)
        THEN /\ Len(r.node.children) = 1
             /\ newRoot = <<r.node.children[1]>>
             /\ treeHeight(newRoot) = treeHeight(root) - 1
        ELSE treeHeight(newRoot) = treeHeight(root)

\* C36: B-tree balance. After every Insert and Delete all leaves are at the
\* same depth and a root that is not nil holds an item; an Insert makes the
\* tree one level higher exactly when the root was full, and otherwise keeps
\* its height; a Delete keeps the height or makes the tree one level lower,
\* and lower only when node.delete left a non-leaf root without items, whose
\* single child then becomes the root.
BtreeBalance ==
    [][/\ Balanced(bt'.root)
       /\ bt'.op = "insert" =>
             treeHeight(bt'.root) =
                 treeHeight(bt.root)
                    + (IF bt.root # <<>> /\ Len(bt.root[1].items) >= maxItems
                       THEN 1 ELSE 0)
       /\ (bt'.op = "delete" /\ bt.root = <<>>) => bt'.root = <<>>
       /\ (bt'.op = "delete" /\ bt.root # <<>>) =>
             /\ treeHeight(bt'.root) \in {treeHeight(bt.root) - 1, treeHeight(bt.root)}
             /\ treeHeight(bt'.root) # treeHeight(bt.root) =>
                   \A key \in DeletedKeys(bt.model, bt'.model) :
                       DeleteLevels(nodeDelete(bt.root[1], key, FALSE),
                                    bt.root, bt'.root)
      ]_vars

\* C36 witness: the Insert that made the tree three levels high. With degree
\* 2 a tree gets its second level by the 4th Insert at the earliest and a
\* full root of two levels by the 8th, so a tree of three levels after 9
\* operations was made by an Insert that split the full root; the leaves are
\* at depth 2.
BtreeBalanceWitness ==
    /\ bt.op = "insert"
    /\ bt.nOps = 9
    /\ treeHeight(bt.root) = 2
    /\ Len(bt.root[1].items) = 1
    /\ leafDepths(bt.root[1], 0) = {2}

-----------------------------------------------------------------------------
(* Properties of the skip list (SpecSkip). *)

\* The nodes of one level from a node on, at most fuel of them.
RECURSIVE chainFrom(_, _, _, _)
chainFrom(nodes, n, level, fuel) ==
    IF n = 0 \/ fuel = 0 THEN <<>>
    ELSE <<n>> \o chainFrom(nodes, nodes[n].tower[level + 1], level, fuel - 1)

chain(sl, level) ==
    chainFrom(sl.nodes, sl.nodes[1].tower[level + 1], level,
              Len(sl.nodes) + 1)

\* a is a sub-sequence of b.
RECURSIVE IsSubSeq(_, _)
IsSubSeq(a, b) ==
    IF a = <<>> THEN TRUE
    ELSE IF b = <<>> THEN FALSE
    ELSE IF Head(a) = Head(b) THEN IsSubSeq(Tail(a), Tail(b))
    ELSE IsSubSeq(a, Tail(b))

chainSorted(sl, c) ==
    \A i \in 1..(Len(c) - 1) :
        BytesCompare(sl.nodes[c[i]].key, sl.nodes[c[i + 1]].key) < 0

\* C19: whatever the heights of the nodes, the level-0 chain holds the
\* present keys, each once, in strictly ascending order; every level's chain
\* is sorted and a sub-sequence of the level below; Get returns the value
\* last inserted for a present key and nothing for any other; Delete has
\* returned true exactly when the key was present.
SkipListIsOrderedMap ==
    /\ chainSorted(skl.sl, chain(skl.sl, 0))
    /\ {skl.sl.nodes[n].key : n \in {chain(skl.sl, 0)[i] :
                                        i \in 1..Len(chain(skl.sl, 0))}}
          = {k \in SklKeys : skl.model[k] # <<>>}
    /\ \A level \in 1..(MaxHeight - 1) :
          /\ chainSorted(skl.sl, chain(skl.sl, level))
          /\ IsSubSeq(chain(skl.sl, level), chain(skl.sl, level - 1))
    /\ \A key \in SklKeys : SkipListGet(skl.sl, key) = skl.model[key]
    /\ skl.op = "delete" => (skl.ret <=> skl.present)

\* C19 witness: a Delete has removed a key from a list that still holds two
\* keys or more, one of them in a tower of the full height.
SkipListWitness ==
    /\ skl.op = "delete" /\ skl.ret
    /\ Len(chain(skl.sl, 0)) >= 2
    /\ Len(chain(skl.sl, MaxHeight - 1)) >= 1
    /\ Len(chain(skl.sl, MaxHeight - 1)) < Len(chain(skl.sl, 0))

-----------------------------------------------------------------------------
(* Properties of blockReader.search (SpecSearch). *)

\* The key at index i (from 0) may be passed over by the search: it is
\* below searchKey with moveUpWhenKeyGT, below or equal to it with
\* moveUpWhenKeyGTE.
PassedOver(i) ==
    BytesCompare(blk.searchKey, blk.keys[i + 1]) >= blk.condition

\* C29: block reader search. Over n restart keys in ascending order search
\* returns the smallest index whose key is >= searchKey with
\* moveUpWhenKeyGT, the smallest index whose key is > searchKey with
\* moveUpWhenKeyGTE, and n when there is no such index (0 when n = 0).
SearchSmallestIndex ==
    blk.searched =>
        /\ blk.ret \in 0..Len(blk.keys)
        /\ \A i \in 0..(blk.ret - 1) : PassedOver(i)
        /\ blk.ret < Len(blk.keys) => ~PassedOver(blk.ret)
        /\ blk.condition = moveUpWhenKeyGT =>
               \A i \in 0..(Len(blk.keys) - 1) :
                   BytesCompare(blk.keys[i + 1], blk.searchKey) >= 0
                       => blk.ret <= i
        /\ blk.condition = moveUpWhenKeyGTE =>
               \A i \in 0..(Len(blk.keys) - 1) :
                   BytesCompare(blk.keys[i + 1], blk.searchKey) > 0
                       => blk.ret <= i

\* C29 witness: a search for a key that is in a block of three or more
\* restart keys, with moveUpWhenKeyGT: the index of the key itself, neither
\* the first nor the last.
SearchWitness ==
    /\ blk.searched
    /\ Len(blk.keys) >= 3
    /\ blk.condition = moveUpWhenKeyGT
    /\ blk.ret > 0
    /\ blk.ret < Len(blk.keys) - 1
    /\ blk.keys[blk.ret + 1] = blk.searchKey

-----------------------------------------------------------------------------
(* Properties of the memtable (SpecMem). *)

\* C30: memtable accounting. HasRoomForWrite(key, val) is true exactly when
\* len(key) + len(val) + 1 <= sizeLimit - usedBytes and changes nothing;
\* every Insert adds len(key) + len(val) + 1 to usedBytes and every
\* InsertTombstone adds 1, whether or not the key is there already;
\* usedBytes never goes down and Get leaves the memtable as it is.
MemtableAccounting ==
    [][/\ mt'.op = "room" =>
              /\ mt'.m = mt.m
              /\ mt'.room <=>
                     (Len(mt'.key) + Len(mt'.val) + 1 <=
                          memtableSizeLimit - mt.m.sizeUsed)
       /\ mt'.op = "insert" =>
              mt'.m.sizeUsed =
                  mt.m.sizeUsed + Len(mt'.key) + Len(mt'.val) + 1
       /\ mt'.op = "tombstone" => mt'.m.sizeUsed = mt.m.sizeUsed + 1
       /\ mt'.op = "get" => mt'.m = mt.m
       /\ mt'.m.sizeUsed >= mt.m.sizeUsed
      ]_vars

\* C30 witness: an Insert of the one key the memtable holds, which had been
\* written before: usedBytes is more than this Insert added.
MemtableAccountingWitness ==
    /\ mt.op = "insert"
    /\ Len(mt.m.sl) = 1
    /\ mt.m.sl[1].key = mt.key
    /\ mt.m.sizeUsed > Len(mt.key) + Len(mt.val) + 1

-----------------------------------------------------------------------------
(* Properties of the WAL writer and reader (SpecWal). *)

IsPrefix(a, b) == Len(a) <= Len(b) /\ \A i \in 1..Len(a) : a[i] = b[i]

RECURSIVE ConcatPayloads(_)
ConcatPayloads(chunks) ==
    IF chunks = <<>> THEN <<>>
    ELSE Head(chunks).payload \o ConcatPayloads(Tail(chunks))

\* FULL | FIRST MIDDLE* LAST
TypesComplete(chunks) ==
    \/ Len(chunks) = 1 /\ chunks[1].typ = chunkTypeFull
    \/ /\ Len(chunks) >= 2
       /\ chunks[1].typ = chunkTypeFirst
       /\ chunks[Len(chunks)].typ = chunkTypeLast
       /\ \A i \in 2..(Len(chunks) - 1) : chunks[i].typ = chunkTypeMiddle

\* FIRST MIDDLE*, at least the FIRST chunk
TypesPartial(chunks) ==
    /\ Len(chunks) >= 1
    /\ chunks[1].typ = chunkTypeFirst
    /\ \A i \in 2..Len(chunks) : chunks[i].typ = chunkTypeMiddle

\* The records of the first n record() calls, as a reader should return them.
WrittenUpTo(n) == [i \in 1..n |-> [key |-> wlog[i].key, val |-> wlog[i].val]]
Written == WrittenUpTo(Len(wlog))

AllCallsOk == \A i \in 1..Len(wlog) : wlog[i].ok

\* C6 (as claimed): WAL round-trip. When every record() call returned nil and
\* the file lost no byte, successive Next calls return the written records in
\* order (a prefix of them while the reader is still going) and then io.EOF.
WalRoundTrip ==
    (AllCallsOk /\ ~wcut /\ wphase \in {"reading", "done"}) =>
        /\ IsPrefix(rout, Written)
        /\ wphase = "done" => (rout = Written /\ rerr = "EOF")

\* C7 (as claimed): chunked record invariant. The chunks written by a record()
\* call that returned nil have the types FULL or FIRST MIDDLE* LAST, and
\* their payloads concatenate to the payload of the record.
ChunkedRecordInvariant ==
    \A i \in 1..Len(wlog) :
        wlog[i].ok =>
            /\ TypesComplete(wlog[i].chunks)
            /\ ConcatPayloads(wlog[i].chunks) =
                   recordPayload(wlog[i].key,
                                 Encode(wlog[i].val.opKind, wlog[i].val.val))

\* C8 (as claimed, on well-formed logs only): partial-tail tolerance. When
\* the file of a writer whose every record is a complete FULL or
\* FIRST MIDDLE* LAST chunk run was cut inside its last block, Next returns a
\* prefix of the written records and then an error value; it returns no
\* record that was not written and does not panic.
PartialTailTolerance ==
    (/\ AllCallsOk
     /\ \A i \in 1..Len(wlog) : TypesComplete(wlog[i].chunks)
     /\ wcut
     /\ wphase \in {"reading", "done"}) =>
        /\ IsPrefix(rout, Written)
        /\ rerr # "panic"

\* The file holds complete records followed by a FIRST MIDDLE* chunk run with
\* no LAST chunk: every record() call but the last wrote a complete run, the
\* last one wrote FIRST MIDDLE* only, and no byte written was lost.
CompleteThenPartial ==
    /\ ~wcut
    /\ Len(wlog) >= 1
    /\ \A i \in 1..(Len(wlog) - 1) : wlog[i].ok /\ TypesComplete(wlog[i].chunks)
    /\ TypesPartial(wlog[Len(wlog)].chunks)

\* C9: crash mid-record. Over a file of complete records followed by a
\* FIRST MIDDLE* run with no LAST, the reader returns exactly the complete
\* records, then io.EOF, and the replay loop ends without error.
CrashMidRecord ==
    (CompleteThenPartial /\ wphase \in {"reading", "done"}) =>
        /\ IsPrefix(rout, WrittenUpTo(Len(wlog) - 1))
        /\ wphase = "done" =>
              /\ rout = WrittenUpTo(Len(wlog) - 1)
              /\ rerr = "EOF"
              /\ replayLoopErr(rerr) = "nil"

\* C9 witness: a record() call failed after its FIRST chunk, the process was
\* killed, and the reader went through the complete record before it.
CrashMidRecordWitness ==
    /\ CompleteThenPartial
    /\ wphase = "done"
    /\ Len(wlog) >= 2
    /\ ~wlog[Len(wlog)].ok
    /\ Len(rout) >= 1

\* C10: durability contract of the writer. In every record()/Close() call each
\* Write is directly followed by a Sync, and when record() has returned nil
\* no written byte of the file is unsynced.
WalSyncAfterEveryWrite ==
    /\ \A i \in 1..Len(wres.ops) :
          wres.ops[i] = "W" =>
              i < Len(wres.ops) /\ wres.ops[i + 1] \in {"S", "S!"}
    /\ (wphase = "writing" /\ wres.err = "nil") =>
          wfile.synced = Len(wfile.bytes)

\* C10 witness: a record() call that sealed a block and wrote two chunks
\* returned nil.
WalSyncWitness ==
    /\ wphase = "writing"
    /\ wres.call = "record"
    /\ wres.err = "nil"
    /\ Len(wres.ops) >= 6
    /\ Len(wfile.bytes) > blockSize


\* Whether record() seals the block before a chunk it starts at block offset
\* off (wal/writer.go:108), and where the chunk then lies in the block.
SealsAt(off) == off + headerSize >= blockSize
ChunkAt(off) == IF SealsAt(off) THEN 0 ELSE off

\* The chunks of one record() call, begun at block offset off and at file
\* position pos, as they lie in the file bytes: zero padding up to the block
\* end exactly before a chunk that SealsAt, every chunk with its header inside
\* one block, every payload of 1..blockSize-headerSize bytes.
RECURSIVE FramedFrom(_, _, _, _)
FramedFrom(chunks, off, pos, bytes) ==
    IF chunks = <<>> THEN TRUE
    ELSE LET c     == Head(chunks)
             start == IF SealsAt(off) THEN pos + (blockSize - off) ELSE pos
             end   == start + headerSize + Len(c.payload)
         IN  /\ c.at = ChunkAt(off)
             /\ Slice(bytes, pos, start) = Zeros(start - pos)
             /\ Len(c.payload) >= 1
             /\ Len(c.payload) <= blockSize - headerSize
             /\ c.at + headerSize + Len(c.payload) <= blockSize
             /\ start \div blockSize = (end - 1) \div blockSize
             /\ Slice(bytes, start, end) =
                    PutUint16(Len(c.payload)) \o <<c.typ>> \o c.payload
             /\ FramedFrom(Tail(chunks), c.at + headerSize + Len(c.payload),
                           end, bytes)

\* The file position after the chunks of one record() call.
RECURSIVE FrameEnd(_, _, _)
FrameEnd(chunks, off, pos) ==
    IF chunks = <<>> THEN pos
    ELSE FrameEnd(Tail(chunks),
                  ChunkAt(off) + headerSize + Len(Head(chunks).payload),
                  (IF SealsAt(off) THEN pos + (blockSize - off) ELSE pos)
                      + headerSize + Len(Head(chunks).payload))

IsRecordCall == Len(wlog') = Len(wlog) + 1

\* C33: WAL block framing. In every record() call the writer pads the block
\* with zeros up to blockSize before a chunk exactly when the block offset +
\* headerSize >= blockSize; every chunk written lies with its 3-byte header
\* inside one block of the file, its payload is 1..blockSize-headerSize bytes
\* long, a call that returned nil wrote nothing else, and the block offset is
\* within 0..blockSize after every step.
WalBlockFraming ==
    [][/\ wblock' \in 0..blockSize
       /\ IsRecordCall =>
             /\ FramedFrom(wres'.chunks, wblock, Len(wfile.bytes), wfile'.bytes)
             /\ wres'.err = "nil" =>
                   /\ wres'.chunks # <<>>
                   /\ Len(wfile'.bytes) =
                         FrameEnd(wres'.chunks, wblock, Len(wfile.bytes))
                   /\ wblock' = wres'.chunks[Len(wres'.chunks)].at + headerSize
                                + Len(wres'.chunks[Len(wres'.chunks)].payload)
      ]_vars

\* C33 witness: a record() call that began less than a header short of the
\* block end sealed the block with real padding, filled the next block with
\* its first chunk and sealed again before its last.
WalBlockFramingWitness ==
    /\ wphase = "writing"
    /\ wres.call = "record"
    /\ wres.err = "nil"
    /\ Len(wlog) = 2
    /\ Len(wlog[1].chunks) = 1
    /\ blockSize - wlog[1].chunks[1].at - headerSize - Len(wlog[1].chunks[1].payload)
           \in 1..headerSize
    /\ Len(wres.chunks) >= 2
    /\ \A i \in 1..Len(wres.chunks) : wres.chunks[i].at = 0
    /\ Len(wres.chunks[1].payload) = blockSize - headerSize
    /\ wblock \in 1..(blockSize - 1)
    /\ Len(wfile.bytes) > 2 * blockSize


\* The block offset the writer was left at by its last chunk.
OffsetAfter(chunks) ==
    chunks[Len(chunks)].at + headerSize + Len(chunks[Len(chunks)].payload)

=============================================================================
